---- MODULE Spec2Model ----
(***************************************************************************)
(* Model of the claude-workflow-viewer backend: the SessionWatcher          *)
(* (server/src/session-watcher.ts) that tails a JSONL log, and the HTTP /   *)
(* WebSocket handlers of server/src/index.ts that own the current watcher.  *)
(*                                                                         *)
(* Strings are sequences of tokens, so that template strings such as        *)
(* `${uuid}-tool-${id}` are concatenations (\o) and not opaque pairs.        *)
(***************************************************************************)
EXTENDS Integers, Sequences, FiniteSets, TLC

\* ------------------------------------------------------------------ bounds
MaxWatchers == 2
MaxLen == 2
MaxInflight == 2
MaxLogLen == 2
MaxTreeLog == 3
MaxLogs == 2
MaxClock == 3
MaxMtime == 3

\* ------------------------------------------------------------- constants
Null == <<>>

Range(s) == {s[i] : i \in 1..Len(s)}

\* `${x}` of a nullable string inside a template literal
Str(x) == IF x = Null THEN <<"null">> ELSE x

\* --------------------------------------------------------- log line values
\* One non-empty trimmed line of the log.  full = the writer has flushed the
\* whole line; json = the whole line is a JSON object; raw = the characters of
\* the line (char codes); the remaining fields are those of the parsed entry.
\* Of the text of a user record: marks = the substring tests it passes (see
\* detectSystemMessage), cmdName and cmdArgs = what the regular expressions
\* <command-name>([^<]+)</command-name> and <command-args>([^<]*)</command-args>
\* capture in it ("" = no match), title = the heading or first meaningful line
\* of the first text segment when the text is a JSON array of segments
\* ('Skill prompt' when it has neither).
MkLine(type, uuid, parentUuid, ts, msgKind, text, marks, toolUseId, blocks, messageId, raw) ==
  [full |-> TRUE, json |-> TRUE, raw |-> raw, type |-> type, uuid |-> uuid,
   parentUuid |-> parentUuid, timestamp |-> ts, msgKind |-> msgKind,
   text |-> text, marks |-> marks, toolUseId |-> toolUseId, blocks |-> blocks,
   messageId |-> messageId, cmdName |-> "", cmdArgs |-> "", title |-> "Skill prompt"]

UserText(uuid, parent, ts, text, marks) ==
  MkLine("user", uuid, parent, ts, "text", text, marks, Null, <<>>, Null, <<123, 117, 125>>)

\* a user text record with what the regular expressions capture in its text
CommandText(uuid, parent, ts, text, marks, cmdName, cmdArgs, title) ==
  [UserText(uuid, parent, ts, text, marks)
     EXCEPT !.cmdName = cmdName, !.cmdArgs = cmdArgs, !.title = title]

ToolResultLine(uuid, parent, ts, toolUseId, text) ==
  MkLine("user", uuid, parent, ts, "tool_result", text, {}, toolUseId, <<>>, Null, <<123, 114, 125>>)

AssistantLine(uuid, parent, ts, blocks) ==
  MkLine("assistant", uuid, parent, ts, "blocks", "", {}, Null, blocks, Null, <<123, 97, 125>>)

SnapshotLine(messageId) ==
  MkLine("file-history-snapshot", Null, Null, 0, "none", "", {}, Null, <<>>, messageId, <<123, 102, 125>>)

OtherLine(raw) ==
  MkLine("summary", Null, Null, 0, "none", "", {}, Null, <<>>, Null, raw)

\* a complete line that is not a JSON object
GarbageLine(raw) ==
  [MkLine("", Null, Null, 0, "none", "", {}, Null, <<>>, Null, raw) EXCEPT !.json = FALSE]

Block(type, id, name, text) == [type |-> type, id |-> id, name |-> name, text |-> text]

\* ------------------------------------------------------------ isValidJsonLine
isValidJsonLineAnyBraced(line) ==
  /\ line.full
  /\ line.raw # <<>>
  /\ Head(line.raw) = 123
  /\ line.raw[Len(line.raw)] = 125

\* 123 = '{', 125 = '}'; JSON.parse succeeds on the whole of a JSON line only
isValidJsonLine(line) ==
  /\ line.full
  /\ line.raw # <<>>
  /\ Head(line.raw) = 123
  /\ line.raw[Len(line.raw)] = 125
  /\ line.json

\* ------------------------------------------------------------------ hashLine
\* 32-bit wrap-around arithmetic of `hash = ((hash << 5) - hash) + char;
\* hash = hash & hash`, on two 16-bit limbs <<hi, lo>>.
HashStep(h, c) ==
  LET lo == h[2] * 31 + c
      hi == h[1] * 31 + (lo \div 65536)
  IN  <<hi % 65536, lo % 65536>>

RECURSIVE HashFold(_, _)
HashFold(h, raw) ==
  IF raw = <<>> THEN h ELSE HashFold(HashStep(h, Head(raw)), Tail(raw))

ToInt32(h) ==
  IF h[1] >= 32768 THEN (h[1] - 65536) * 65536 + h[2] ELSE h[1] * 65536 + h[2]

StringHash(raw) == ToInt32(HashFold(<<0, 0>>, raw))

hashLine(line) ==
  IF line.json /\ line.uuid # Null
    THEN line.uuid
    ELSE IF line.json /\ line.messageId # Null
      THEN <<"snapshot-">> \o line.messageId
      ELSE <<"hash-", ToString(StringHash(line.raw))>>

\* ------------------------------------------------------- detectSystemMessage
detectSystemMessageCaveatFirst(marks) ==
  IF "cmdName" \in marks /\ "cmdMsg" \in marks
    THEN [isSystem |-> TRUE, skip |-> FALSE, rule |-> "Command"]
  ELSE IF "stdout" \in marks
    THEN [isSystem |-> TRUE, skip |-> TRUE, rule |-> "stdout"]
  ELSE IF "cmdMsg" \in marks /\ "running" \in marks
    THEN [isSystem |-> TRUE, skip |-> FALSE, rule |-> "Running"]
  ELSE IF "caveat" \in marks
    THEN [isSystem |-> TRUE, skip |-> TRUE, rule |-> "caveat"]
  ELSE IF "jsonText" \in marks
    THEN [isSystem |-> TRUE, skip |-> FALSE, rule |-> "Skill"]
  ELSE [isSystem |-> FALSE, skip |-> FALSE, rule |-> "user"]

detectSystemMessageStdoutFirst(marks) ==
  IF "stdout" \in marks
    THEN [isSystem |-> TRUE, skip |-> TRUE, rule |-> "stdout"]
  ELSE IF "cmdName" \in marks /\ "cmdMsg" \in marks
    THEN [isSystem |-> TRUE, skip |-> FALSE, rule |-> "Command"]
  ELSE IF "cmdMsg" \in marks /\ "running" \in marks
    THEN [isSystem |-> TRUE, skip |-> FALSE, rule |-> "Running"]
  ELSE IF "jsonText" \in marks /\ "jsonCaveat" \in marks
    THEN [isSystem |-> TRUE, skip |-> TRUE, rule |-> "jsonCaveat"]
  ELSE IF "jsonText" \in marks
    THEN [isSystem |-> TRUE, skip |-> FALSE, rule |-> "Skill"]
  ELSE IF "caveat" \in marks
    THEN [isSystem |-> TRUE, skip |-> TRUE, rule |-> "caveat"]
  ELSE [isSystem |-> FALSE, skip |-> FALSE, rule |-> "user"]

\* marks = which of the substring tests of detectSystemMessage the content
\* passes: "cmdName" (<command-name>), "cmdMsg" (<command-message>),
\* "stdout" (<local-command-stdout>), "running" (is running), "jsonText"
\* (starts with [{"type":"text" and parses to an array whose first element is
\* a text segment), "jsonCaveat" (that segment's text holds the caveat),
\* "caveat" (the content holds the caveat).
detectSystemMessage(marks) ==
  IF "cmdName" \in marks /\ "cmdMsg" \in marks
    THEN [isSystem |-> TRUE, skip |-> FALSE, rule |-> "Command"]
  ELSE IF "stdout" \in marks
    THEN [isSystem |-> TRUE, skip |-> TRUE, rule |-> "stdout"]
  ELSE IF "cmdMsg" \in marks /\ "running" \in marks
    THEN [isSystem |-> TRUE, skip |-> FALSE, rule |-> "Running"]
  ELSE IF "jsonText" \in marks /\ "jsonCaveat" \in marks
    THEN [isSystem |-> TRUE, skip |-> TRUE, rule |-> "jsonCaveat"]
  ELSE IF "jsonText" \in marks
    THEN [isSystem |-> TRUE, skip |-> FALSE, rule |-> "Skill"]
  ELSE IF "caveat" \in marks
    THEN [isSystem |-> TRUE, skip |-> TRUE, rule |-> "caveat"]
  ELSE [isSystem |-> FALSE, skip |-> FALSE, rule |-> "user"]

\* ------------------------------------------------------------------ truncate
truncateHead(text, maxLength) ==
  IF Len(text) <= maxLength THEN text ELSE SubSeq(text, 1, maxLength)

truncate(text, maxLength) ==
  IF Len(text) <= maxLength THEN text ELSE SubSeq(text, 1, maxLength - 3) \o "..."

\* the summary detectSystemMessage returns with its verdict (221-269)
systemSummary(entry) ==
  LET rule == detectSystemMessage(entry.marks).rule
      cmdName == IF entry.cmdName # "" THEN entry.cmdName ELSE "command"
  IN  CASE rule = "Command" -> "Command: " \o cmdName
        [] rule = "Running" ->
             "Running: " \o cmdName \o (IF entry.cmdArgs # "" THEN " " \o entry.cmdArgs ELSE "")
        [] rule = "Skill" -> "Skill: " \o truncate(entry.title, 60)
        [] OTHER -> ""

\* getToolResultSummary (272-287) of a result that is no error and holds no
\* line break
getToolResultSummary(content) == truncate(content, 100)

\* getToolSummary (402-430); block.text is the input field the tool is
\* summarised by (the whole input as JSON for a tool not in the table)
getToolSummary(block) ==
  IF block.name = "TodoWrite" THEN "Updating todo list" ELSE truncate(block.text, 60)

\* ------------------------------------------------------------ node creation
MkNode(id, parentId, ts, type, summary, content) ==
  [id |-> id, parentId |-> parentId, timestamp |-> ts, type |-> type,
   summary |-> summary, content |-> content, children |-> <<>>]

createUserNodeUnderRecord(entry) ==
  IF entry.msgKind = "tool_result"
    THEN <<MkNode(entry.uuid, entry.parentUuid, entry.timestamp, "tool_result",
                  getToolResultSummary(entry.text), entry.text)>>
    ELSE LET systemInfo == detectSystemMessage(entry.marks)
         IN  IF systemInfo.skip
               THEN <<>>
               ELSE <<MkNode(entry.uuid, entry.parentUuid, entry.timestamp,
                             IF systemInfo.isSystem THEN "system" ELSE "user",
                             IF systemInfo.isSystem THEN systemSummary(entry)
                                                    ELSE truncate(entry.text, 100),
                             entry.text)>>

\* createUserNode: the sequence of nodes it yields (empty = null)
createUserNode(entry) ==
  IF entry.msgKind = "tool_result"
    THEN <<MkNode(entry.uuid,
                  Str(entry.parentUuid) \o <<"-tool-">> \o entry.toolUseId,
                  entry.timestamp, "tool_result", getToolResultSummary(entry.text),
                  entry.text)>>
    ELSE LET systemInfo == detectSystemMessage(entry.marks)
         IN  IF systemInfo.skip
               THEN <<>>
               ELSE <<MkNode(entry.uuid, entry.parentUuid, entry.timestamp,
                             IF systemInfo.isSystem THEN "system" ELSE "user",
                             IF systemInfo.isSystem THEN systemSummary(entry)
                                                    ELSE truncate(entry.text, 100),
                             entry.text)>>

createToolNode(entry, block) ==
  MkNode(entry.uuid \o <<"-tool-">> \o block.id, entry.parentUuid, entry.timestamp,
         CASE block.name = "Task" -> "agent"
           [] block.name = "Skill" -> "skill"
           [] block.name = "SlashCommand" -> "command"
           [] OTHER -> "tool_call",
         CASE block.name = "Task" -> truncate(block.text, 80)
           [] block.name = "Skill" -> block.text
           [] block.name = "SlashCommand" -> block.text
           [] OTHER -> block.name \o ": " \o getToolSummary(block),
         block.text)

RECURSIVE BlocksToNodes(_, _)
BlocksToNodes(entry, blocks) ==
  IF blocks = <<>> THEN <<>>
  ELSE LET block == Head(blocks)
           rest == BlocksToNodes(entry, Tail(blocks))
       IN  CASE block.type = "thinking" ->
                  <<MkNode(entry.uuid \o <<"-thinking">>, entry.parentUuid,
                           entry.timestamp, "thinking", truncate(block.text, 100),
                           block.text)>> \o rest
             [] block.type = "text" ->
                  <<MkNode(entry.uuid \o <<"-text">>, entry.parentUuid,
                           entry.timestamp, "assistant", truncate(block.text, 100),
                           block.text)>> \o rest
             [] block.type = "tool_use" -> <<createToolNode(entry, block)>> \o rest
             [] OTHER -> rest

createAssistantNodes(entry) ==
  IF entry.msgKind # "blocks" THEN <<>> ELSE BlocksToNodes(entry, entry.blocks)

\* ---------------------------------------------------------------- registry
\* The Map<string, ConversationNode>: a sequence of nodes in insertion order.
Ids(reg) == {reg[i].id : i \in 1..Len(reg)}

IndexOf(reg, id) == CHOOSE i \in 1..Len(reg) : reg[i].id = id

NodeOf(reg, id) == reg[IndexOf(reg, id)]

MapSetKeepFirst(reg, node) ==
  IF node.id \in Ids(reg) THEN reg ELSE Append(reg, node)

\* Map.set: overwrite in place under an existing key, else append
MapSet(reg, node) ==
  IF node.id \in Ids(reg)
    THEN [reg EXCEPT ![IndexOf(reg, node.id)] = node]
    ELSE Append(reg, node)

RECURSIVE MapSetAll(_, _)
MapSetAll(reg, nodes) ==
  IF nodes = <<>> THEN reg ELSE MapSetAll(MapSet(reg, Head(nodes)), Tail(nodes))

processLineReturnsNull(reg, line) ==
  CASE line.type = "file-history-snapshot" -> [nodes |-> reg, node |-> FALSE]
    [] line.type = "user" ->
         IF line.msgKind = "none"
           THEN [nodes |-> reg, node |-> FALSE]
           ELSE [nodes |-> MapSetAll(reg, createUserNode(line)), node |-> FALSE]
    [] line.type = "assistant" ->
         [nodes |-> MapSetAll(reg, createAssistantNodes(line)), node |-> FALSE]
    [] OTHER -> [nodes |-> reg, node |-> FALSE]

processLineSnapshotNode(reg, line) ==
  CASE line.type = "file-history-snapshot" -> [nodes |-> reg, node |-> TRUE]
    [] line.type = "user" ->
         IF line.msgKind = "none"
           THEN [nodes |-> reg, node |-> FALSE]
           ELSE LET made == createUserNode(line)
                IN  [nodes |-> MapSetAll(reg, made), node |-> made # <<>>]
    [] line.type = "assistant" ->
         LET made == createAssistantNodes(line)
         IN  [nodes |-> MapSetAll(reg, made), node |-> made # <<>>]
    [] OTHER -> [nodes |-> reg, node |-> FALSE]

\* processLine: the registry afterwards and whether a node was returned
processLine(reg, line) ==
  CASE line.type = "file-history-snapshot" -> [nodes |-> reg, node |-> FALSE]
    [] line.type = "user" ->
         IF line.msgKind = "none"
           THEN [nodes |-> reg, node |-> FALSE]
           ELSE LET made == createUserNode(line)
                IN  [nodes |-> MapSetAll(reg, made), node |-> made # <<>>]
    [] line.type = "assistant" ->
         LET made == createAssistantNodes(line)
         IN  [nodes |-> MapSetAll(reg, made), node |-> made # <<>>]
    [] OTHER -> [nodes |-> reg, node |-> FALSE]

\* ------------------------------------------------------------------ sorting
\* A timestamp is held as the milliseconds its date stands for; Unparsable is
\* a timestamp string that Date cannot parse, for which getTime() gives NaN.
Unparsable == -1
NaN == -2

\* new Date(timestamp).getTime()
getTime(ts) == IF ts = Unparsable THEN NaN ELSE ts

\* a < b on numbers: false when either side is NaN
Less(a, b) == a # NaN /\ b # NaN /\ a < b

\* sortByTimestamp as Array.prototype.sort sees it: a NaN result counts as +0
Compare(reg, a, b) ==
  LET ta == getTime(NodeOf(reg, a).timestamp)
      tb == getTime(NodeOf(reg, b).timestamp)
  IN  IF ta = NaN \/ tb = NaN THEN 0 ELSE ta - tb

Before(reg, a, b) == Compare(reg, a, b) < 0

Reverse(s) == [k \in 1..Len(s) |-> s[Len(s) + 1 - k]]

\* Array.prototype.sort of V8 on an array of fewer than 64 elements: the
\* leading run is found (and reversed if it strictly descends), then every
\* further element is put in place by binary insertion.
RECURSIVE RunLength(_, _, _, _)
RunLength(reg, ids, idx, isDescending) ==
  IF idx > Len(ids) THEN Len(ids)
  ELSE LET order == Compare(reg, ids[idx], ids[idx - 1])
       IN  IF (isDescending /\ order >= 0) \/ (~isDescending /\ order < 0)
             THEN idx - 1
             ELSE RunLength(reg, ids, idx + 1, isDescending)

CountAndMakeRun(reg, ids) ==
  LET isDescending == Before(reg, ids[2], ids[1])
      n == RunLength(reg, ids, 3, isDescending)
      run == SubSeq(ids, 1, n)
  IN  [sorted |-> IF isDescending THEN Reverse(run) ELSE run,
       rest |-> SubSeq(ids, n + 1, Len(ids))]

RECURSIVE BinarySearch(_, _, _, _, _)
\* the number of elements of `sorted` that stay in front of the pivot x
BinarySearch(reg, sorted, x, left, right) ==
  IF left >= right THEN left
  ELSE LET mid == left + ((right - left) \div 2)
       IN  IF Before(reg, x, sorted[mid + 1])
             THEN BinarySearch(reg, sorted, x, left, mid)
             ELSE BinarySearch(reg, sorted, x, mid + 1, right)

InsertSortedLast(reg, sorted, x) == Append(sorted, x)

InsertSorted(reg, sorted, x) ==
  LET at == BinarySearch(reg, sorted, x, 0, Len(sorted))
  IN  SubSeq(sorted, 1, at) \o <<x>> \o SubSeq(sorted, at + 1, Len(sorted))

RECURSIVE InsertAll(_, _, _)
InsertAll(reg, sorted, rest) ==
  IF rest = <<>> THEN sorted
  ELSE InsertAll(reg, InsertSorted(reg, sorted, Head(rest)), Tail(rest))

SortByTimestamp(reg, ids) ==
  IF Len(ids) < 2 THEN ids
  ELSE LET run == CountAndMakeRun(reg, ids)
       IN  InsertAll(reg, run.sorted, run.rest)

\* ---------------------------------------------------------------- flattenTree
\* the depth of recursion at which the engine gives up with a RangeError
\* (Maximum call stack size exceeded), scaled down
StackLimit == 16

\* the inner function flatten (606-613) at the given depth of recursion;
\* st = [result, overflow]
RECURSIVE flatten(_, _, _, _)
flatten(nodeList, ch, depth, st) ==
  IF nodeList = <<>> \/ st.overflow THEN st
  ELSE IF depth > StackLimit THEN [st EXCEPT !.overflow = TRUE]
  ELSE LET node == Head(nodeList)
           pushed == [st EXCEPT !.result = Append(@, node)]
           inner == IF ch[node] # <<>> THEN flatten(ch[node], ch, depth + 1, pushed)
                                       ELSE pushed
       IN  flatten(Tail(nodeList), ch, depth, inner)

flattenTree(nodes, ch) ==
  flatten(nodes, ch, 1, [result |-> <<>>, overflow |-> FALSE]).result

\* ------------------------------------------------------ reorganizeForDisplay
RECURSIVE AppendUnused(_, _)
\* push every not-yet-used id of `ids` onto acc.list, marking it used
AppendUnused(acc, ids) ==
  IF ids = <<>> THEN acc
  ELSE LET x == Head(ids)
       IN  IF x \in acc.used
             THEN AppendUnused(acc, Tail(ids))
             ELSE AppendUnused([used |-> acc.used \cup {x}, list |-> Append(acc.list, x)],
                               Tail(ids))

AttachOwnersBare(reg, st, owners, toolResults) ==
  [used |-> st.used \cup Range(owners), ch |-> st.ch,
   out |-> st.out \o SelectSeq(owners, LAMBDA o : o \notin st.used)]

\* lines 556-567 and 585-596: attach to each not-yet-used owner its matching,
\* not-yet-used tool results; st = [used, ch, out] where out collects owners
RECURSIVE AttachOwners(_, _, _, _)
AttachOwners(reg, st, owners, toolResults) ==
  IF owners = <<>> THEN st
  ELSE LET tool == Head(owners)
       IN  IF tool \in st.used
             THEN AttachOwners(reg, st, Tail(owners), toolResults)
             ELSE LET used1 == st.used \cup {tool}
                      matching == SelectSeq(toolResults,
                                    LAMBDA r : NodeOf(reg, r).parentId = tool /\ r \notin used1)
                  IN  AttachOwners(reg,
                        [used |-> used1 \cup Range(matching),
                         ch |-> [st.ch EXCEPT ![tool] = @ \o matching],
                         out |-> Append(st.out, tool)],
                        Tail(owners), toolResults)

InTurnWindowClosed(nodeTime, startTime, bounded, endTime) ==
  nodeTime >= startTime /\ (bounded => nodeTime <= endTime)

\* lines 523-526: strictly after the turn starter and strictly before the next
\* one; bounded = there is a next turn starter (else endTime is Infinity)
InTurnWindow(nodeTime, startTime, bounded, endTime) ==
  Less(startTime, nodeTime) /\ (bounded => Less(nodeTime, endTime))

PrimaryResponseFirst(aiTextResponses) == aiTextResponses[1]

\* line 533: the last assistant node of the turn is its primary response
PrimaryResponse(aiTextResponses) == aiTextResponses[Len(aiTextResponses)]

TurnRootsAll(reg, turnNodes) == turnNodes

\* line 586: in a turn without an assistant node every node that is not a
\* tool_result is a candidate root
TurnRoots(reg, turnNodes) ==
  SelectSeq(turnNodes, LAMBDA n : NodeOf(reg, n).type # "tool_result")

\* one iteration of the loop over turnStarters (lines 512-598);
\* st = [used, ch, newRoots]
Turn(reg, allNodes, turnStarters, i, st) ==
  LET turnStart == turnStarters[i]
      hasFollower == i + 1 <= Len(turnStarters)
      used0 == st.used \cup {turnStart}
      startTime == getTime(NodeOf(reg, turnStart).timestamp)
      endTime == IF hasFollower THEN getTime(NodeOf(reg, turnStarters[i + 1]).timestamp) ELSE 0
      InTurn(n) ==
        /\ n # turnStart
        /\ n \notin used0
        /\ InTurnWindow(getTime(NodeOf(reg, n).timestamp), startTime, hasFollower, endTime)
      turnNodes == SelectSeq(allNodes, InTurn)
      OfType(T) == SelectSeq(turnNodes, LAMBDA n : NodeOf(reg, n).type \in T)
      aiTextResponses == OfType({"assistant"})
      toolResults == OfType({"tool_result"})
      roots0 == Append(st.newRoots, turnStart)
  IN  IF aiTextResponses # <<>>
        THEN LET ai == PrimaryResponse(aiTextResponses)
                 used1 == used0 \cup {ai}
                 toolCalls == OfType({"tool_call", "agent", "skill", "command"})
                 thinkingNodes == OfType({"thinking"})
                 otherAi == SelectSeq(aiTextResponses, LAMBDA n : n # ai)
                 th == AppendUnused([used |-> used1, list |-> st.ch[ai]], thinkingNodes)
                 tl == AttachOwners(reg, [used |-> th.used, ch |-> st.ch, out |-> th.list],
                                    toolCalls, toolResults)
                 ot == AppendUnused([used |-> tl.used, list |-> tl.out], otherAi)
             IN  [used |-> ot.used,
                  ch |-> [tl.ch EXCEPT ![ai] = SortByTimestamp(reg, ot.list)],
                  newRoots |-> Append(roots0, ai)]
        ELSE LET nonResults == TurnRoots(reg, turnNodes)
                 at == AttachOwners(reg, [used |-> used0, ch |-> st.ch, out |-> roots0],
                                    nonResults, toolResults)
             IN  [used |-> at.used, ch |-> at.ch, newRoots |-> at.out]

RECURSIVE Turns(_, _, _, _, _)
Turns(reg, allNodes, turnStarters, i, st) ==
  IF i > Len(turnStarters) THEN st
  ELSE Turns(reg, allNodes, turnStarters, i + 1, Turn(reg, allNodes, turnStarters, i, st))

\* line 501: user and system messages are the turn boundaries
isTurnStarter(node) == node.type = "user" \/ node.type = "system"

KeepFlattened(ch, flat) == ch

\* lines 486-489: the children of every flattened node are emptied
ResetFlattened(ch, flat) ==
  [id \in DOMAIN ch |-> IF id \in Range(flat) THEN <<>> ELSE ch[id]]

\* result: the root list and every node's children list
reorganizeForDisplay(reg, rootNodes, ch) ==
  LET flat == flattenTree(rootNodes, ch)
      chReset == ResetFlattened(ch, flat)
      allNodes == SortByTimestamp(reg, flat)
      turnStarters == SelectSeq(allNodes, LAMBDA n : isTurnStarter(NodeOf(reg, n)))
      done == Turns(reg, allNodes, turnStarters, 1,
                    [used |-> {}, ch |-> chReset, newRoots |-> <<>>])
  IN  IF flat = <<>> THEN [roots |-> rootNodes, ch |-> ch]
      ELSE IF turnStarters = <<>> THEN [roots |-> rootNodes, ch |-> chReset]
      ELSE [roots |-> done.newRoots, ch |-> done.ch]

\* ------------------------------------------------------------------ buildTree
KeepChildren(reg) == [id \in Ids(reg) |-> NodeOf(reg, id).children]

\* lines 443-446: children of every registry node start empty
ResetChildren(reg) == [id \in Ids(reg) |-> <<>>]

RECURSIVE LinkAlsoRoot(_, _, _)
LinkAlsoRoot(reg, i, st) ==
  IF i > Len(reg) THEN st
  ELSE LET node == reg[i]
           rooted == [st EXCEPT !.roots = Append(@, node.id)]
       IN  IF node.parentId # Null /\ node.parentId \in Ids(reg)
             THEN LinkAlsoRoot(reg, i + 1, [rooted EXCEPT !.ch[node.parentId] = Append(@, node.id)])
             ELSE LinkAlsoRoot(reg, i + 1, rooted)

\* lines 449-459; st = [roots, ch]
RECURSIVE Link(_, _, _)
Link(reg, i, st) ==
  IF i > Len(reg) THEN st
  ELSE LET node == reg[i]
       IN  IF node.parentId # Null /\ node.parentId \in Ids(reg)
             THEN Link(reg, i + 1, [st EXCEPT !.ch[node.parentId] = Append(@, node.id)])
             ELSE Link(reg, i + 1, [st EXCEPT !.roots = Append(@, node.id)])

buildTree(reg) ==
  LET linked == Link(reg, 1, [roots |-> <<>>, ch |-> ResetChildren(reg)])
      rootNodes == SortByTimestamp(reg, linked.roots)
      chSorted == [id \in Ids(reg) |-> SortByTimestamp(reg, linked.ch[id])]
  IN  reorganizeForDisplay(reg, rootNodes, chSorted)

\* the registry after buildTree: the node objects keep the children lists
WithChildren(reg, ch) == [i \in 1..Len(reg) |-> [reg[i] EXCEPT !.children = ch[reg[i].id]]]

\* the nested value a caller of getNodes sees (what JSON.stringify walks)
RECURSIVE Expand(_, _, _)
Expand(id, ch, depth) ==
  [id |-> id,
   children |-> IF depth = 0 THEN <<>>
                ELSE [k \in 1..Len(ch[id]) |-> Expand(ch[id][k], ch, depth - 1)]]

TreeOf(t) == [k \in 1..Len(t.roots) |-> Expand(t.roots[k], t.ch, Cardinality(DOMAIN t.ch))]

\* ============================================================ state machine
VARIABLES
  files,           \* path -> the non-empty trimmed lines of the log on disk
  logHistory,      \* how the producer has treated the log so far
  currentWatcher,  \* index.ts `currentWatcher` (0 = null)
  created,         \* number of SessionWatcher objects constructed
  filePath,        \* SessionWatcher.filePath
  nodes,           \* SessionWatcher.nodes
  lastLineCount,   \* SessionWatcher.lastLineCount
  processedLines,  \* SessionWatcher.processedLines
  fsWatch,         \* SessionWatcher.watcher # null (an open chokidar watch)
  changed,         \* chokidar has a settled write to report to the watcher
  initRead,        \* the readFile() call of start(): its await on fs readFile
  polls,           \* the readNewContent() calls awaiting fs readFile
  out,             \* the WebSocket message sent by the last step
  projects,        \* the session logs under <claudeDir>/projects, as fs serves them
  sessionCache,    \* SessionManager.sessionCache
  sessionsRes,     \* the response to GET /api/sessions, if the last step gave one
  now              \* Date.now(), in units of which cacheTTL is two

managerVars == <<projects, sessionCache, sessionsRes, now>>

vars == <<files, logHistory, currentWatcher, created, filePath, nodes, lastLineCount,
          processedLines, fsWatch, changed, initRead, polls, out, managerVars>>

Watchers == 1..MaxWatchers
Paths == {"A"}

\* ---- the lines the log producer may write
U1 == UserText(<<"u1">>, Null, 1, "Fix the bug", {})
U1b == UserText(<<"u1">>, Null, 1, "Fix the bug again", {})
A1 == AssistantLine(<<"a1">>, <<"u1">>, 2,
        <<Block("thinking", Null, "", "hmm"), Block("tool_use", <<"abc">>, "Bash", "ls"),
          Block("text", Null, "", "Done")>>)
R1 == ToolResultLine(<<"r1">>, <<"a1">>, 3, <<"abc">>, "ok")
U2 == UserText(<<"u2">>, <<"a1">>, 4, "Now add a test", {})
A2 == AssistantLine(<<"a2">>, <<"u1">>, 2, <<Block("text", Null, "", "Retrying")>>)
A3 == AssistantLine(<<"a3">>, <<"u2">>, 5, <<Block("tool_use", <<"xyz">>, "Task", "explore")>>)
R2 == ToolResultLine(<<"r2">>, <<"a9">>, 3, <<"abc">>, "lost")
S1 == SnapshotLine(<<"m1">>)
O1 == OtherLine(<<123, 115, 125>>)
C1 == UserText(<<"c1">>, <<"u1">>, 2, "Caveat", {"caveat"})
Y1 == UserText(<<"y1">>, <<"u1">>, 3, "/clear", {"cmdName", "cmdMsg"})
A4 == AssistantLine(<<"a4">>, Null, 1,
        <<Block("text", Null, "", "First"), Block("text", Null, "", "Second")>>)
P1 == UserText(<<"p1">>, <<"p1">>, 2, "Self", {})
A5 == AssistantLine(<<"a5">>, <<"u1">>, 3, <<Block("text", Null, "", "At last")>>)
G1 == GarbageLine(<<123, 117, 58, 125>>)
G2 == GarbageLine(<<117, 125>>)
A6 == AssistantLine(<<"a6">>, <<"u1">>, 2,
        <<Block("text", Null, "", "Let me look"), Block("tool_use", <<"def">>, "Read", "README")>>)
R3 == ToolResultLine(<<"r3">>, <<"a3">>, 6, <<"xyz">>, "found")
\* records whose timestamp is no date
UN == UserText(<<"un">>, <<"a2">>, Unparsable, "When was this", {})
AN == AssistantLine(<<"an">>, <<"u1">>, Unparsable, <<Block("text", Null, "", "Undated")>>)
\* records whose declared parents form a loop: two user records that name each
\* other, and a tool result under the invocation of an assistant record that
\* names the tool result record as its parent
Q1 == UserText(<<"q1">>, <<"q2">>, 2, "First of two", {})
Q2 == UserText(<<"q2">>, <<"q1">>, 3, "Second of two", {})
A7 == AssistantLine(<<"a7">>, <<"r7">>, 2, <<Block("tool_use", <<"k">>, "Bash", "pwd")>>)
R7 == ToolResultLine(<<"r7">>, <<"a7">>, 3, <<"k">>, "/")
\* tool results that name the record a1 and the invocation of another record,
\* or the invocation of a1 at a later time
R4 == ToolResultLine(<<"r4">>, <<"a1">>, 3, <<"xyz">>, "other")
R5 == ToolResultLine(<<"r5">>, <<"a1">>, 5, <<"abc">>, "late")
\* a user record whose uuid is the id of the text node of a4
X1 == UserText(<<"a4", "-text">>, <<"u1">>, 3, "Overwrite", {})

\* the conversation logged in the runs that explore the interleavings of the
\* handlers: the producer appends its lines in order
Conversation == <<U1, A1, R1, U2, A3>>

\* the lines of the runs in which one watcher follows a growing log
LogLines == {U1, U1b, A1, S1, O1, G1}

\* the lines it may flush in two parts, and those it may rewrite the log with
PartialLines == {U1, A1}
RewriteLines == {U1b, A1}

\* the lines of the logs that are loaded whole
TreeLines == {U1, U1b, U2, A1, A2, A3, A4, A5, R1, R2, S1, O1, C1, Y1, P1, G2}

\* the records of the logs on which the grouping into turns is explored
TurnLines == {U1, U2, Y1, A1, A2, A3, A5, A6, R1, R2, R3, P1}

\* records with and without a loop among their parents
CycleLines == {U1, A1, P1, Q1, Q2, A7, R7}

\* invocations and tool results that do and do not belong together
ResultLines == {U1, U2, A1, A3, R1, R2, R3, R4, R5}

\* records with and without a date
DateLines == {U1, A2, U2, A3, UN, AN}

\* records of which several expand into a node with the same id
UpsertLines == {U1, A1, A4, X1}

RECURSIVE SeqsUpTo(_, _)
SeqsUpTo(S, n) ==
  IF n = 0 THEN {<<>>}
  ELSE LET shorter == SeqsUpTo(S, n - 1)
       IN  shorter \cup {Append(s, x) : s \in shorter, x \in S}

\* a WebSocket message; from/via record which watcher and which handler sent it
NoMsg == [type |-> "none", nodes |-> <<>>, sessionFile |-> "", from |-> 0, via |-> ""]
\* nothing sent by a handler that went through its lines; via names it
Quiet(via) == [NoMsg EXCEPT !.via = via]
InitMsg(w, tree, via) ==
  [type |-> "init", nodes |-> tree, sessionFile |-> filePath[w], from |-> w, via |-> via]
ClearMsg == [type |-> "clear", nodes |-> <<>>, sessionFile |-> "", from |-> 0, via |-> "stop"]

\* a pending fs readFile: st = "reading" (issued), "ready" (the content is
\* there), "failed" (the promise was rejected)
Reading == [st |-> "reading", content |-> <<>>]

\* the POST /api/watch request of a watcher: the read of its start() and the
\* HTTP response it has been given so far
\* SessionManager after construction, no session log on disk, no request yet
NoRes == [status |-> 0, sessions |-> <<>>]

ManagerInit ==
  /\ projects = <<>>
  /\ sessionCache = {}
  /\ sessionsRes = NoRes
  /\ now = 0

Idle == [st |-> "none", content |-> <<>>, res |-> "none"]
Starting == [st |-> "reading", content |-> <<>>, res |-> "pending"]

Init ==
  /\ files = [p \in Paths |-> <<>>]
  /\ logHistory = "append"
  /\ currentWatcher = 0
  /\ created = 0
  /\ filePath = [w \in Watchers |-> "A"]
  /\ nodes = [w \in Watchers |-> <<>>]
  /\ lastLineCount = [w \in Watchers |-> 0]
  /\ processedLines = [w \in Watchers |-> {}]
  /\ fsWatch = [w \in Watchers |-> FALSE]
  /\ changed = [w \in Watchers |-> FALSE]
  /\ initRead = [w \in Watchers |-> Idle]
  /\ polls = [w \in Watchers |-> <<>>]
  /\ out = NoMsg
  /\ ManagerInit

IngestLineNoDedup(st, line) ==
  IF isValidJsonLine(line)
    THEN LET r == processLine(st.nodes, line)
         IN  [nodes |-> r.nodes,
              processedLines |-> st.processedLines \cup {hashLine(line)},
              hasNewNodes |-> st.hasNewNodes \/ r.node]
    ELSE st

\* ---- the loop body of readFile (70-76) and readNewContent (102-111)
IngestLine(st, line) ==
  IF isValidJsonLine(line)
    THEN LET lineHash == hashLine(line)
         IN  IF lineHash \notin st.processedLines
               THEN LET r == processLine(st.nodes, line)
                    IN  [nodes |-> r.nodes,
                         processedLines |-> st.processedLines \cup {lineHash},
                         hasNewNodes |-> st.hasNewNodes \/ r.node]
               ELSE st
    ELSE st

RECURSIVE IngestLines(_, _)
IngestLines(st, lines) ==
  IF lines = <<>> THEN st ELSE IngestLines(IngestLine(st, Head(lines)), Tail(lines))

WatcherState(w) ==
  [nodes |-> nodes[w], processedLines |-> processedLines[w], hasNewNodes |-> FALSE]

newLinesSkipOne(lines, count) == SubSeq(lines, count + 2, Len(lines))

\* lines.slice(this.lastLineCount)
newLinesOf(lines, count) == SubSeq(lines, count + 1, Len(lines))

\* ---- the log producer and chokidar
Notify(p) == changed' = [w \in Watchers |-> changed[w] \/ (fsWatch[w] /\ filePath[w] = p)]

WatcherVarsUnchanged ==
  UNCHANGED <<currentWatcher, created, filePath, nodes, lastLineCount, processedLines,
              fsWatch, initRead, polls, managerVars>>

LastFull(p) == IF files[p] = <<>> THEN TRUE ELSE files[p][Len(files[p])].full

AppendLine(l, maxLen) ==
  /\ Len(files["A"]) < maxLen
  /\ LastFull("A")
  /\ files' = [files EXCEPT !["A"] = Append(@, l)]
  /\ Notify("A")
  /\ out' = NoMsg
  /\ UNCHANGED logHistory
  /\ WatcherVarsUnchanged

AppendPartial(l, maxLen) ==
  /\ Len(files["A"]) < maxLen
  /\ LastFull("A")
  /\ logHistory # "rewrite"
  /\ files' = [files EXCEPT !["A"] = Append(@, [l EXCEPT !.full = FALSE])]
  /\ logHistory' = "partial"
  /\ Notify("A")
  /\ out' = NoMsg
  /\ WatcherVarsUnchanged

CompleteLine ==
  /\ ~LastFull("A")
  /\ files' = [files EXCEPT !["A"][Len(files["A"])].full = TRUE]
  /\ Notify("A")
  /\ out' = NoMsg
  /\ UNCHANGED logHistory
  /\ WatcherVarsUnchanged

\* the log is truncated and written anew
Rewrite(l) ==
  /\ logHistory = "append"
  /\ files["A"] # <<>>
  /\ files["A"] # <<l>>
  /\ files' = [files EXCEPT !["A"] = <<l>>]
  /\ logHistory' = "rewrite"
  /\ Notify("A")
  /\ out' = NoMsg
  /\ WatcherVarsUnchanged

RECURSIVE PendingPolls(_)
\* the readNewContent() calls of watchers 1..w that await their read
PendingPolls(w) == IF w = 0 THEN 0 ELSE Len(polls[w]) + PendingPolls(w - 1)

\* the read a readNewContent() call awaits: issued and not yet served by the
\* file system, or (atOnce) served within the step that issues it
Issued(w, atOnce) ==
  IF atOnce THEN [st |-> "ready", content |-> files[filePath[w]]] ELSE Reading

\* chokidar 'change' -> readNewContent() up to its await
ChangeEvent(w, maxInflight, atOnce) ==
  /\ fsWatch[w]
  /\ changed[w]
  /\ PendingPolls(MaxWatchers) < maxInflight
  /\ changed' = [changed EXCEPT ![w] = FALSE]
  /\ polls' = [polls EXCEPT ![w] = Append(@, Issued(w, atOnce))]
  /\ out' = NoMsg
  /\ UNCHANGED <<managerVars, files, logHistory, currentWatcher, created, filePath, nodes,
                 lastLineCount, processedLines, fsWatch, initRead>>

\* fs readFile delivers the content of the file as it is at some moment
\* between the call and the resumption of the caller
PollIO(w, i) ==
  /\ i \in 1..Len(polls[w])
  /\ polls[w][i].st = "reading"
  /\ polls' = [polls EXCEPT ![w][i] = [st |-> "ready", content |-> files[filePath[w]]]]
  /\ out' = NoMsg
  /\ UNCHANGED <<managerVars, files, logHistory, currentWatcher, created, filePath, nodes,
                 lastLineCount, processedLines, fsWatch, changed, initRead>>

InitIO(w) ==
  /\ initRead[w].st = "reading"
  /\ initRead' = [initRead EXCEPT ![w].st = "ready", ![w].content = files[filePath[w]]]
  /\ out' = NoMsg
  /\ UNCHANGED <<managerVars, files, logHistory, currentWatcher, created, filePath, nodes,
                 lastLineCount, processedLines, fsWatch, changed, polls>>

\* fs readFile rejects (the file is gone or unreadable)
PollFail(w, i) ==
  /\ i \in 1..Len(polls[w])
  /\ polls[w][i].st = "reading"
  /\ polls' = [polls EXCEPT ![w][i].st = "failed"]
  /\ out' = NoMsg
  /\ UNCHANGED <<managerVars, files, logHistory, currentWatcher, created, filePath, nodes,
                 lastLineCount, processedLines, fsWatch, changed, initRead>>

InitFail(w) ==
  /\ initRead[w].st = "reading"
  /\ initRead' = [initRead EXCEPT ![w].st = "failed"]
  /\ out' = NoMsg
  /\ UNCHANGED <<managerVars, files, logHistory, currentWatcher, created, filePath, nodes,
                 lastLineCount, processedLines, fsWatch, changed, polls>>

RemoveAt(s, i) == SubSeq(s, 1, i - 1) \o SubSeq(s, i + 1, Len(s))

CycleAbortedAdvances(w) ==
  /\ out' = NoMsg
  /\ lastLineCount' = [lastLineCount EXCEPT ![w] = Len(files[filePath[w]])]
  /\ UNCHANGED <<nodes, processedLines>>

\* the catch of readNewContent (121-123): the error is logged, nothing else
CycleAborted(w) ==
  /\ out' = NoMsg
  /\ UNCHANGED <<nodes, lastLineCount, processedLines>>

\* readNewContent() from the resumption after its await to its end
readNewContent(w, i) ==
  /\ i \in 1..Len(polls[w])
  /\ polls[w][i].st \in {"ready", "failed"}
  /\ LET lines == polls[w][i].content
     IN  IF polls[w][i].st = "failed"
           THEN CycleAborted(w)
         ELSE IF Len(lines) <= lastLineCount[w]
           THEN /\ out' = NoMsg
                /\ UNCHANGED <<nodes, lastLineCount, processedLines>>
           ELSE LET r == IngestLines(WatcherState(w), newLinesOf(lines, lastLineCount[w]))
                    t == buildTree(r.nodes)
                IN  /\ processedLines' = [processedLines EXCEPT ![w] = r.processedLines]
                    /\ lastLineCount' = [lastLineCount EXCEPT ![w] = Len(lines)]
                    /\ IF r.hasNewNodes
                         THEN /\ nodes' = [nodes EXCEPT ![w] = WithChildren(r.nodes, t.ch)]
                              /\ out' = InitMsg(w, TreeOf(t), "readNewContent")
                         ELSE /\ nodes' = [nodes EXCEPT ![w] = r.nodes]
                              /\ out' = Quiet("readNewContent")
  /\ polls' = [polls EXCEPT ![w] = RemoveAt(@, i)]
  /\ UNCHANGED <<managerVars, files, logHistory, currentWatcher, created, filePath, fsWatch, changed,
                 initRead>>

StartRejectedWatches(w) ==
  /\ initRead' = [initRead EXCEPT ![w] = [st |-> "rejected", content |-> <<>>, res |-> "500"]]
  /\ fsWatch' = [fsWatch EXCEPT ![w] = TRUE]
  /\ out' = NoMsg
  /\ UNCHANGED <<nodes, lastLineCount, processedLines>>

\* the catch of readFile (81-84) rethrows, start() rejects before it opens the
\* chokidar watch, and the catch of POST /api/watch answers 500 (index.ts 81-83)
StartRejected(w) ==
  /\ initRead' = [initRead EXCEPT ![w] = [st |-> "rejected", content |-> <<>>, res |-> "500"]]
  /\ out' = NoMsg
  /\ UNCHANGED <<nodes, lastLineCount, processedLines, fsWatch>>

\* readFile() from the resumption after its await, then the rest of start()
\* (the chokidar watch is opened and the change handler registered) and of
\* POST /api/watch (the request is answered)
readFile(w) ==
  /\ initRead[w].st \in {"ready", "failed"}
  /\ IF initRead[w].st = "failed"
       THEN StartRejected(w)
       ELSE /\ LET lines == initRead[w].content
                   r == IngestLines(WatcherState(w), lines)
                   t == buildTree(r.nodes)
               IN  /\ processedLines' = [processedLines EXCEPT ![w] = r.processedLines]
                   /\ lastLineCount' = [lastLineCount EXCEPT ![w] = Len(lines)]
                   /\ nodes' = [nodes EXCEPT ![w] = WithChildren(r.nodes, t.ch)]
                   /\ out' = InitMsg(w, TreeOf(t), "readFile")
            /\ fsWatch' = [fsWatch EXCEPT ![w] = TRUE]
            /\ initRead' = [initRead EXCEPT ![w] = [st |-> "done", content |-> <<>>, res |-> "200"]]
  /\ UNCHANGED <<managerVars, files, logHistory, currentWatcher, created, filePath, changed, polls>>

stopKeepsFingerprints(w) ==
  /\ fsWatch' = [fsWatch EXCEPT ![w] = FALSE]
  /\ changed' = [changed EXCEPT ![w] = FALSE]
  /\ nodes' = [nodes EXCEPT ![w] = <<>>]
  /\ lastLineCount' = [lastLineCount EXCEPT ![w] = 0]
  /\ UNCHANGED processedLines

\* SessionWatcher.stop(): the fields of watcher w afterwards
stop(w) ==
  /\ fsWatch' = [fsWatch EXCEPT ![w] = FALSE]
  /\ changed' = [changed EXCEPT ![w] = FALSE]
  /\ nodes' = [nodes EXCEPT ![w] = <<>>]
  /\ lastLineCount' = [lastLineCount EXCEPT ![w] = 0]
  /\ processedLines' = [processedLines EXCEPT ![w] = {}]

\* POST /api/watch up to the await inside start(): stop the current watcher,
\* construct the new one, call start(), which calls readFile()
Watch(p, maxWatchers) ==
  /\ created < maxWatchers
  /\ IF currentWatcher # 0
       THEN stop(currentWatcher)
       ELSE UNCHANGED <<fsWatch, changed, nodes, lastLineCount, processedLines>>
  /\ created' = created + 1
  /\ currentWatcher' = created + 1
  /\ filePath' = [filePath EXCEPT ![created + 1] = p]
  /\ initRead' = [initRead EXCEPT ![created + 1] = Starting]
  /\ out' = NoMsg
  /\ UNCHANGED <<managerVars, files, logHistory, polls>>

\* POST /api/stop
Stop ==
  /\ currentWatcher # 0
  /\ stop(currentWatcher)
  /\ currentWatcher' = 0
  /\ out' = ClearMsg
  /\ UNCHANGED <<managerVars, files, logHistory, created, filePath, initRead, polls>>

ConnectFirstWatcher ==
  /\ currentWatcher # 0
  /\ LET t == buildTree(nodes[1])
     IN  /\ nodes' = [nodes EXCEPT ![1] = WithChildren(@, t.ch)]
         /\ out' = InitMsg(1, TreeOf(t), "connection")
  /\ UNCHANGED <<managerVars, files, logHistory, currentWatcher, created, filePath, lastLineCount,
                 processedLines, fsWatch, changed, initRead, polls>>

\* wss.on('connection'): getNodes() of the current watcher, sent to the client
Connect ==
  /\ currentWatcher # 0
  /\ LET t == buildTree(nodes[currentWatcher])
     IN  /\ nodes' = [nodes EXCEPT ![currentWatcher] = WithChildren(@, t.ch)]
         /\ out' = InitMsg(currentWatcher, TreeOf(t), "connection")
  /\ UNCHANGED <<managerVars, files, logHistory, currentWatcher, created, filePath, lastLineCount,
                 processedLines, fsWatch, changed, initRead, polls>>

\* ---------------------------------------------------------- SessionManager
\* a .jsonl log under a project folder: what stat reports of it, whether stat
\* and readFile of it succeed, and its lines
LogFile(sessionId, lastModified, statOk, readOk, lines) ==
  [sessionId |-> sessionId, lastModified |-> lastModified, statOk |-> statOk,
   readOk |-> readOk, lines |-> lines]

RECURSIVE CountToolUses(_)
CountToolUses(lines) ==
  IF lines = <<>> THEN 0
  ELSE (IF Head(lines).json /\ Head(lines).type = "assistant"
          THEN Len(SelectSeq(Head(lines).blocks, LAMBDA b : b.type = "tool_use"))
          ELSE 0) + CountToolUses(Tail(lines))

\* getSessionMetadata: the counts of a scan of the log, zeroes when the read fails
getSessionMetadata(f) ==
  IF f.readOk
    THEN [messageCount |-> Len(SelectSeq(f.lines, LAMBDA l : l.json /\ l.type = "user")),
          toolCount |-> CountToolUses(f.lines)]
    ELSE [messageCount |-> 0, toolCount |-> 0]

SessionInfo(f, metadata) ==
  [sessionId |-> f.sessionId, lastModified |-> f.lastModified,
   messageCount |-> metadata.messageCount, toolCount |-> metadata.toolCount]

\* private cacheTTL = 30000
cacheTTL == 2

\* an entry of sessionCache under the key of the log
CacheEntry(f, info, timestamp) == [key |-> f.sessionId, info |-> info, timestamp |-> timestamp]

cacheValidByAge(cached, t, lastModified) ==
  /\ cached # {}
  /\ \A c \in cached : t - c.timestamp < cacheTTL

\* lines 46-49; cached = the entries under the key of the log (none or one)
cacheValid(cached, t, lastModified) ==
  /\ cached # {}
  /\ \A c \in cached : t - c.timestamp < cacheTTL /\ c.info.lastModified = lastModified

\* the loop over the logs (31-71); acc = [sessions, cache, threw]; t = the
\* value of Date.now() at the start of the listing
RECURSIVE ScanLogs(_, _, _)
ScanLogs(logs, acc, t) ==
  IF logs = <<>> THEN acc
  ELSE LET f == Head(logs)
           cached == {c \in acc.cache : c.key = f.sessionId}
           info == SessionInfo(f, getSessionMetadata(f))
       IN  IF ~f.statOk
             THEN [acc EXCEPT !.threw = TRUE]
           ELSE IF cacheValid(cached, t, f.lastModified)
             THEN ScanLogs(Tail(logs),
                           [acc EXCEPT !.sessions = Append(@, (CHOOSE c \in cached : TRUE).info)],
                           t)
             ELSE ScanLogs(Tail(logs),
                           [sessions |-> Append(acc.sessions, info),
                            cache |-> (acc.cache \ cached) \cup {CacheEntry(f, info, t)},
                            threw |-> FALSE],
                           t)

\* sessions.sort(newest first); Array.prototype.sort is stable
RECURSIVE InsertNewestFirst(_, _)
InsertNewestFirst(sorted, x) ==
  IF sorted = <<>> THEN <<x>>
  ELSE IF Head(sorted).lastModified < x.lastModified
         THEN <<x>> \o sorted
         ELSE <<Head(sorted)>> \o InsertNewestFirst(Tail(sorted), x)

RECURSIVE SortNewestFirst(_)
SortNewestFirst(sessions) ==
  IF sessions = <<>> THEN <<>>
  ELSE InsertNewestFirst(SortNewestFirst(SubSeq(sessions, 1, Len(sessions) - 1)),
                         sessions[Len(sessions)])

\* listSessions: what it returns and the cache it leaves
listSessions(t) ==
  LET r == ScanLogs(projects, [sessions |-> <<>>, cache |-> sessionCache, threw |-> FALSE], t)
  IN  [sessions |-> IF r.threw THEN <<>> ELSE SortNewestFirst(r.sessions),
       cache |-> r.cache]

\* GET /api/sessions; the file system does not change during the scan
GetSessions ==
  /\ LET r == listSessions(now)
     IN  /\ sessionsRes' = [status |-> 200, sessions |-> r.sessions]
         /\ sessionCache' = r.cache
  /\ UNCHANGED <<projects, now, files, logHistory, currentWatcher, created, filePath, nodes,
                 lastLineCount, processedLines, fsWatch, changed, initRead, polls, out>>

\* time passes
Tick(maxClock) ==
  /\ now < maxClock
  /\ now' = now + 1
  /\ sessionsRes' = NoRes
  /\ UNCHANGED <<projects, sessionCache, files, logHistory, currentWatcher, created,
                 filePath, nodes, lastLineCount, processedLines, fsWatch, changed, initRead,
                 polls, out>>

\* the session behind log k goes on: a record is appended to the log, which
\* gives it a later modification time
Touch(k, maxMtime) ==
  /\ k \in 1..Len(projects)
  /\ projects[k].lastModified < maxMtime
  /\ projects' = [projects EXCEPT ![k].lastModified = @ + 1, ![k].lines = Append(@, A1)]
  /\ sessionsRes' = NoRes
  /\ UNCHANGED <<now, sessionCache, files, logHistory, currentWatcher, created,
                 filePath, nodes, lastLineCount, processedLines, fsWatch, changed, initRead,
                 polls, out>>

NextLine ==
  IF Len(files["A"]) < Len(Conversation) THEN {Conversation[Len(files["A"]) + 1]} ELSE {}

\* ---- the handlers of the server under every interleaving of watchers and
\* handlers; the file system serves a poll's read when it is issued (the gap
\* between the issue and the snapshot of a poll is explored in SpecLog)
Next ==
  \/ \E l \in NextLine : AppendLine(l, MaxLen)
  \/ \E w \in Watchers : ChangeEvent(w, MaxInflight, TRUE)
  \/ \E w \in Watchers : \E i \in 1..MaxInflight : readNewContent(w, i)
  \/ \E w \in Watchers : InitIO(w)
  \/ \E w \in Watchers : readFile(w)
  \/ \E p \in Paths : Watch(p, MaxWatchers)
  \/ Stop
  \/ Connect

Spec == Init /\ [][Next]_vars

\* ---- one watcher following one log, whatever the producer writes
NextLog ==
  \/ \E l \in LogLines : AppendLine(l, MaxLogLen)
  \/ \E l \in PartialLines : AppendPartial(l, MaxLogLen)
  \/ CompleteLine
  \/ \E l \in RewriteLines : Rewrite(l)
  \/ ChangeEvent(1, 1, FALSE)
  \/ PollIO(1, 1)
  \/ readNewContent(1, 1)
  \/ InitIO(1)
  \/ readFile(1)
  \/ Watch("A", 1)
  \/ Connect

SpecLog == Init /\ [][NextLog]_vars

\* ---- a finished log, loaded whole and served to subscribers
InitTree ==
  /\ files \in [Paths -> SeqsUpTo(TreeLines, MaxTreeLog)]
  /\ logHistory = "append"
  /\ currentWatcher = 0
  /\ created = 0
  /\ filePath = [w \in Watchers |-> "A"]
  /\ nodes = [w \in Watchers |-> <<>>]
  /\ lastLineCount = [w \in Watchers |-> 0]
  /\ processedLines = [w \in Watchers |-> {}]
  /\ fsWatch = [w \in Watchers |-> FALSE]
  /\ changed = [w \in Watchers |-> FALSE]
  /\ initRead = [w \in Watchers |-> Idle]
  /\ polls = [w \in Watchers |-> <<>>]
  /\ out = NoMsg
  /\ ManagerInit

NextTree ==
  \/ Watch("A", 1)
  \/ InitIO(1)
  \/ readFile(1)
  \/ Connect

SpecTree == InitTree /\ [][NextTree]_vars

\* ---- the same, over the records that exercise the grouping into turns
InitTurns ==
  /\ files \in [Paths -> SeqsUpTo(TurnLines, MaxTreeLog)]
  /\ logHistory = "append"
  /\ currentWatcher = 0
  /\ created = 0
  /\ filePath = [w \in Watchers |-> "A"]
  /\ nodes = [w \in Watchers |-> <<>>]
  /\ lastLineCount = [w \in Watchers |-> 0]
  /\ processedLines = [w \in Watchers |-> {}]
  /\ fsWatch = [w \in Watchers |-> FALSE]
  /\ changed = [w \in Watchers |-> FALSE]
  /\ initRead = [w \in Watchers |-> Idle]
  /\ polls = [w \in Watchers |-> <<>>]
  /\ out = NoMsg
  /\ ManagerInit

SpecTurns == InitTurns /\ [][NextTree]_vars

\* ---- a log of one user text record followed by an assistant reply, for
\* every combination of markers the text of the record may hold (the caveat
\* inside the first text segment of a JSON array is also inside the content)
AllMarks == {"cmdName", "cmdMsg", "stdout", "running", "jsonText", "jsonCaveat", "caveat"}

MarkSets == {m \in SUBSET AllMarks : "jsonCaveat" \in m => {"jsonText", "caveat"} \subseteq m}

InitMarks ==
  /\ \E m \in MarkSets :
       files = [p \in Paths |-> <<UserText(<<"u1">>, Null, 1, "text", m), A2>>]
  /\ logHistory = "append"
  /\ currentWatcher = 0
  /\ created = 0
  /\ filePath = [w \in Watchers |-> "A"]
  /\ nodes = [w \in Watchers |-> <<>>]
  /\ lastLineCount = [w \in Watchers |-> 0]
  /\ processedLines = [w \in Watchers |-> {}]
  /\ fsWatch = [w \in Watchers |-> FALSE]
  /\ changed = [w \in Watchers |-> FALSE]
  /\ initRead = [w \in Watchers |-> Idle]
  /\ polls = [w \in Watchers |-> <<>>]
  /\ out = NoMsg
  /\ ManagerInit

SpecMarks == InitMarks /\ [][NextTree]_vars

\* ---- the same for every text the record may hold: its length, its markers
\* and what the regular expressions capture in it (a captured command name
\* implies the command-name wrapper)
Ten == "0123456789"
Hundred == Ten \o Ten \o Ten \o Ten \o Ten \o Ten \o Ten \o Ten \o Ten \o Ten

Texts == {"Fix the bug", Hundred, Hundred \o "x", Hundred \o Hundred}

Titles == {"Skill prompt", Ten \o Ten \o Ten \o Ten \o Ten \o Ten \o "!"}

InitRules ==
  /\ \E m \in MarkSets : \E text \in Texts : \E title \in Titles :
     \E cmdName \in {"", "clear"} : \E cmdArgs \in {"", "now"} :
       /\ cmdName # "" => "cmdName" \in m
       /\ files = [p \in Paths |->
                    <<CommandText(<<"u1">>, Null, 1, text, m, cmdName, cmdArgs, title), A2>>]
  /\ logHistory = "append"
  /\ currentWatcher = 0
  /\ created = 0
  /\ filePath = [w \in Watchers |-> "A"]
  /\ nodes = [w \in Watchers |-> <<>>]
  /\ lastLineCount = [w \in Watchers |-> 0]
  /\ processedLines = [w \in Watchers |-> {}]
  /\ fsWatch = [w \in Watchers |-> FALSE]
  /\ changed = [w \in Watchers |-> FALSE]
  /\ initRead = [w \in Watchers |-> Idle]
  /\ polls = [w \in Watchers |-> <<>>]
  /\ out = NoMsg
  /\ ManagerInit

SpecRules == InitRules /\ [][NextTree]_vars

\* ---- a finished log some of whose records carry a timestamp that is no date
InitDates ==
  /\ files \in [Paths -> SeqsUpTo(DateLines, MaxTreeLog)]
  /\ logHistory = "append"
  /\ currentWatcher = 0
  /\ created = 0
  /\ filePath = [w \in Watchers |-> "A"]
  /\ nodes = [w \in Watchers |-> <<>>]
  /\ lastLineCount = [w \in Watchers |-> 0]
  /\ processedLines = [w \in Watchers |-> {}]
  /\ fsWatch = [w \in Watchers |-> FALSE]
  /\ changed = [w \in Watchers |-> FALSE]
  /\ initRead = [w \in Watchers |-> Idle]
  /\ polls = [w \in Watchers |-> <<>>]
  /\ out = NoMsg
  /\ ManagerInit

SpecDates == InitDates /\ [][NextTree]_vars

\* ---- a finished log some of whose records name each other as parents
InitCycles ==
  /\ files \in [Paths -> SeqsUpTo(CycleLines, MaxTreeLog)]
  /\ logHistory = "append"
  /\ currentWatcher = 0
  /\ created = 0
  /\ filePath = [w \in Watchers |-> "A"]
  /\ nodes = [w \in Watchers |-> <<>>]
  /\ lastLineCount = [w \in Watchers |-> 0]
  /\ processedLines = [w \in Watchers |-> {}]
  /\ fsWatch = [w \in Watchers |-> FALSE]
  /\ changed = [w \in Watchers |-> FALSE]
  /\ initRead = [w \in Watchers |-> Idle]
  /\ polls = [w \in Watchers |-> <<>>]
  /\ out = NoMsg
  /\ ManagerInit

SpecCycles == InitCycles /\ [][NextTree]_vars

\* ---- a finished log of invocations and tool results
InitResults ==
  /\ files \in [Paths -> SeqsUpTo(ResultLines, MaxTreeLog)]
  /\ logHistory = "append"
  /\ currentWatcher = 0
  /\ created = 0
  /\ filePath = [w \in Watchers |-> "A"]
  /\ nodes = [w \in Watchers |-> <<>>]
  /\ lastLineCount = [w \in Watchers |-> 0]
  /\ processedLines = [w \in Watchers |-> {}]
  /\ fsWatch = [w \in Watchers |-> FALSE]
  /\ changed = [w \in Watchers |-> FALSE]
  /\ initRead = [w \in Watchers |-> Idle]
  /\ polls = [w \in Watchers |-> <<>>]
  /\ out = NoMsg
  /\ ManagerInit

SpecResults == InitResults /\ [][NextTree]_vars

\* ---- one watcher following a log whose records may reuse a node id
NextUpsert ==
  \/ \E l \in UpsertLines : AppendLine(l, MaxTreeLog)
  \/ ChangeEvent(1, 1, TRUE)
  \/ readNewContent(1, 1)
  \/ InitIO(1)
  \/ readFile(1)
  \/ Watch("A", 1)
  \/ Connect

SpecUpsert == Init /\ [][NextUpsert]_vars

\* ---- the session listing over every small set of logs, each of which may
\* fail its stat or its read
LogShapes ==
  {LogFile("", m, s, r, <<U1, A1>>) : m \in {1, 2}, s \in BOOLEAN, r \in BOOLEAN}

Dirs ==
  {[k \in 1..Len(d) |-> [d[k] EXCEPT !.sessionId = ToString(k)]] :
     d \in SeqsUpTo(LogShapes, MaxLogs)}

InitList ==
  /\ files = [p \in Paths |-> <<>>]
  /\ logHistory = "append"
  /\ currentWatcher = 0
  /\ created = 0
  /\ filePath = [w \in Watchers |-> "A"]
  /\ nodes = [w \in Watchers |-> <<>>]
  /\ lastLineCount = [w \in Watchers |-> 0]
  /\ processedLines = [w \in Watchers |-> {}]
  /\ fsWatch = [w \in Watchers |-> FALSE]
  /\ changed = [w \in Watchers |-> FALSE]
  /\ initRead = [w \in Watchers |-> Idle]
  /\ polls = [w \in Watchers |-> <<>>]
  /\ out = NoMsg
  /\ projects \in Dirs
  /\ sessionCache = {}
  /\ sessionsRes = NoRes
  /\ now = 0

NextList ==
  \/ GetSessions
  \/ Tick(MaxClock)

SpecList == InitList /\ [][NextList]_vars

\* ---- the session listing over logs that grow while time passes
InitCache ==
  /\ InitList
  /\ \A k \in 1..Len(projects) : projects[k].statOk /\ projects[k].readOk

NextCache ==
  \/ GetSessions
  \/ Tick(MaxClock)
  \/ \E k \in 1..MaxLogs : Touch(k, MaxMtime)

SpecCache == InitCache /\ [][NextCache]_vars

\* ---- one watcher whose poll cycles overlap: a change is reported while the
\* reads of earlier cycles are pending, and the reads are served in any order,
\* each with the log as it is at that moment
NextOverlap ==
  \/ \E l \in PartialLines : AppendLine(l, MaxLogLen)
  \/ \E l \in PartialLines : AppendPartial(l, MaxLogLen)
  \/ CompleteLine
  \/ ChangeEvent(1, MaxInflight, FALSE)
  \/ \E i \in 1..MaxInflight : PollIO(1, i)
  \/ \E i \in 1..MaxInflight : readNewContent(1, i)
  \/ InitIO(1)
  \/ readFile(1)
  \/ Watch("A", 1)

SpecOverlap == Init /\ [][NextOverlap]_vars

\* ---- one watcher over a file system whose reads may fail
NextIO ==
  \/ \E l \in NextLine : AppendLine(l, MaxLen)
  \/ ChangeEvent(1, MaxInflight, FALSE)
  \/ \E i \in 1..MaxInflight : PollIO(1, i)
  \/ \E i \in 1..MaxInflight : PollFail(1, i)
  \/ \E i \in 1..MaxInflight : readNewContent(1, i)
  \/ InitIO(1)
  \/ InitFail(1)
  \/ readFile(1)
  \/ Watch("A", 1)
  \/ Stop
  \/ Connect

SpecIO == Init /\ [][NextIO]_vars

\* ================================================================ properties
Strip(reg) == [i \in 1..Len(reg) |-> [reg[i] EXCEPT !.children = <<>>]]

Fresh == [nodes |-> <<>>, processedLines |-> {}, hasNewNodes |-> FALSE]

\* the result of starting a watcher on a log with these lines
LoadWhole(lines) == IngestLines(Fresh, lines)

\* how often id occurs in the tree t
Occurrences(t, id) ==
  LET flat == flattenTree(t.roots, t.ch)
  IN  Cardinality({k \in 1..Len(flat) : flat[k] = id})

AllFull(lines) == \A k \in 1..Len(lines) : lines[k].full

\* C1: once a trailing line that was read while incomplete has been completed,
\* a poll cycle that reads the final file and leaves no trigger pending leaves
\* the registry and the tree of loading that file from scratch.
PartialWriteConvergence ==
  [][\A w \in Watchers : \A i \in 1..Len(polls[w]) :
       (/\ readNewContent(w, i)
        /\ w = currentWatcher
        /\ logHistory \in {"append", "partial"}
        /\ polls[w][i].content = files[filePath[w]]
        /\ AllFull(polls[w][i].content)
        /\ polls'[w] = <<>>
        /\ ~changed'[w])
       => LET whole == LoadWhole(polls[w][i].content)
          IN  /\ Strip(nodes'[w]) = Strip(whole.nodes)
              /\ TreeOf(buildTree(nodes'[w])) = TreeOf(buildTree(whole.nodes))]_vars

\* C2: over a log of complete lines, a watcher that was started on a prefix
\* and then handled change triggers holds the registry, the fingerprints and
\* the tree of a watcher started on the whole of what it has read.
MonotonicIngestion ==
  \A w \in Watchers :
    logHistory = "append"
    => LET whole == LoadWhole(SubSeq(files[filePath[w]], 1, lastLineCount[w]))
       IN  /\ Strip(nodes[w]) = Strip(whole.nodes)
           /\ processedLines[w] = whole.processedLines
           /\ TreeOf(buildTree(nodes[w])) = TreeOf(buildTree(whole.nodes))

MonotonicIngestionWitness ==
  /\ logHistory = "append"
  /\ out.via = "readNewContent"
  /\ lastLineCount[1] = 2
  /\ Len(files["A"]) = 2
  /\ Len(nodes[1]) >= 2

\* C3: a watcher that was stopped while one of its reads was in flight takes
\* nothing from that read: its registry, fingerprints and position stay
\* cleared and no tree of it is sent.
StoppedReadDiscarded ==
  \A w \in 1..created :
    w # currentWatcher
    => /\ nodes[w] = <<>>
       /\ processedLines[w] = {}
       /\ lastLineCount[w] = 0
       /\ ~(out.type = "init" /\ out.from = w)

\* C4: at most one watcher holds an open filesystem watch, and it is the
\* current one.
SingleActiveWatch ==
  /\ Cardinality({w \in Watchers : fsWatch[w]}) <= 1
  /\ \A w \in Watchers : fsWatch[w] => w = currentWatcher

\* C5 (as stated): every identifier of the registry occurs exactly once in
\* the tree returned by getNodes.
ExactlyOnceInTree ==
  \A w \in Watchers :
    LET t == buildTree(nodes[w])
    IN  \A id \in Ids(nodes[w]) : Occurrences(t, id) = 1

\* C5 (amended): every identifier of the registry occurs at most once in the
\* tree returned by getNodes, and the tree holds registry nodes only.
AtMostOnceInTree ==
  \A w \in Watchers :
    LET t == buildTree(nodes[w])
    IN  /\ \A id \in Ids(nodes[w]) : Occurrences(t, id) <= 1
        /\ Range(flattenTree(t.roots, t.ch)) \subseteq Ids(nodes[w])

AtMostOnceInTreeWitness ==
  LET t == buildTree(nodes[1])
  IN  /\ \E id \in Ids(nodes[1]) : Occurrences(t, id) = 0
      /\ \E id \in Ids(nodes[1]) : id \notin Range(t.roots) /\ Occurrences(t, id) = 1
      /\ \E id \in Range(t.roots) : NodeOf(nodes[1], id).type = "assistant"

\* the valid lines of a list whose fingerprint is neither in `seen` nor that
\* of an earlier valid line of the list
RECURSIVE Unseen(_, _)
Unseen(lines, seen) ==
  IF lines = <<>> THEN <<>>
  ELSE LET l == Head(lines)
       IN  IF isValidJsonLine(l) /\ hashLine(l) \notin seen
             THEN <<l>> \o Unseen(Tail(lines), seen \cup {hashLine(l)})
             ELSE Unseen(Tail(lines), seen)

RECURSIVE ProcessAll(_, _)
ProcessAll(reg, lines) ==
  IF lines = <<>> THEN reg ELSE ProcessAll(processLine(reg, Head(lines)).nodes, Tail(lines))

\* what a cycle of watcher w that was handed `lines` must leave behind when
\* already-fingerprinted lines count for nothing
DedupPost(w, lines) ==
  LET unseen == Unseen(lines, processedLines[w])
  IN  /\ Strip(nodes'[w]) = Strip(ProcessAll(nodes[w], unseen))
      /\ processedLines'[w] = processedLines[w] \cup {hashLine(l) : l \in Range(unseen)}
      /\ unseen = <<>> => /\ nodes'[w] = nodes[w]
                          /\ processedLines'[w] = processedLines[w]
                          /\ out'.type = "init" => out'.nodes = TreeOf(buildTree(nodes[w]))

\* C6: in the initial read and in every poll cycle a line whose fingerprint is
\* already in the processed set changes neither the registry nor the
\* fingerprint set nor the tree.
DedupByFingerprint ==
  [][\A w \in Watchers :
       /\ readFile(w) => DedupPost(w, initRead[w].content)
       /\ \A i \in 1..Len(polls[w]) :
            (readNewContent(w, i) /\ Len(polls[w][i].content) > lastLineCount[w])
            => DedupPost(w, newLinesOf(polls[w][i].content, lastLineCount[w]))]_vars

DedupByFingerprintWitness ==
  /\ lastLineCount[1] = 2
  /\ files["A"] = <<U1, U1b>>
  /\ Len(nodes[1]) = 1
  /\ nodes[1][1].content = "Fix the bug"
  /\ processedLines[1] = {<<"u1">>}

\* C7: after the log was truncated and written anew, a poll cycle processes
\* every valid line of the file whose fingerprint it has not seen, wherever
\* the line sits.
RewrittenFileIngested ==
  [][\A w \in Watchers : \A i \in 1..Len(polls[w]) :
       (readNewContent(w, i) /\ logHistory = "rewrite")
       => \A k \in 1..Len(polls[w][i].content) :
            isValidJsonLine(polls[w][i].content[k])
            => hashLine(polls[w][i].content[k]) \in processedLines'[w]]_vars

\* C8: getNodes called again with no line processed in between returns the
\* tree it returned before, which is the tree of the registry entries alone.
IdempotentRebuild ==
  [][Connect =>
       /\ out'.nodes = TreeOf(buildTree(Strip(nodes[currentWatcher])))
       /\ (out.type = "init" /\ out.from = currentWatcher) => out'.nodes = out.nodes]_vars

IdempotentRebuildWitness ==
  /\ out.via = "connection"
  /\ \E i \in 1..Len(nodes[1]) : Len(nodes[1][i].children) >= 2
  /\ \E i \in 1..Len(nodes[1]) :
       nodes[1][i].type = "tool_call" /\ Len(nodes[1][i].children) = 1

\* C9: stop() leaves the watcher as the constructor makes it (registry empty,
\* line count 0, no fingerprints, no open watch), and a watcher started on the
\* file afterwards gets the registry and the tree of a first load.
StopResetsToFresh ==
  [][/\ (currentWatcher # 0 /\ currentWatcher' # currentWatcher)
        => /\ nodes'[currentWatcher] = <<>>
           /\ lastLineCount'[currentWatcher] = 0
           /\ processedLines'[currentWatcher] = {}
           /\ ~fsWatch'[currentWatcher]
     /\ \A w \in Watchers :
          readFile(w)
          => LET whole == LoadWhole(initRead[w].content)
             IN  /\ Strip(nodes'[w]) = Strip(whole.nodes)
                 /\ processedLines'[w] = whole.processedLines
                 /\ out'.nodes = TreeOf(buildTree(whole.nodes))]_vars

StopResetsToFreshWitness ==
  /\ created = 2
  /\ currentWatcher = 2
  /\ out.via = "readFile"
  /\ out.from = 2
  /\ nodes[1] = <<>>
  /\ processedLines[1] = {}
  /\ Len(nodes[2]) > 0

\* C10: a watcher never has two read-parse-rebuild-notify cycles in flight.
NoReentrantCycles ==
  \A w \in Watchers :
    Len(polls[w]) + (IF initRead[w].st \in {"reading", "ready"} THEN 1 ELSE 0) <= 1

\* the identifiers of the nodes a line yields
NodeIdsOf(line) == Ids(processLine(<<>>, line).nodes)

\* C11: a poll cycle whose file read failed leaves the registry, the line
\* count and the fingerprints as they were and sends nothing; a cycle whose
\* read succeeded processes every line beyond the line count, those left
\* pending by a failed cycle included.
PollFailureKeepsState ==
  [][\A i \in 1..Len(polls[1]) :
       readNewContent(1, i)
       => /\ polls[1][i].st = "failed"
             => /\ nodes' = nodes
                /\ lastLineCount' = lastLineCount
                /\ processedLines' = processedLines
                /\ out' = NoMsg
          /\ (polls[1][i].st = "ready" /\ Len(polls[1][i].content) > lastLineCount[1])
             => /\ lastLineCount'[1] = Len(polls[1][i].content)
                /\ \A k \in (lastLineCount[1] + 1)..Len(polls[1][i].content) :
                     LET line == polls[1][i].content[k]
                     IN  isValidJsonLine(line)
                         => /\ hashLine(line) \in processedLines'[1]
                            /\ NodeIdsOf(line) \subseteq Ids(nodes'[1])]_vars

PollFailureKeepsStateWitness ==
  /\ Len(polls[1]) = 1
  /\ polls[1][1].st = "failed"
  /\ out.via = "readNewContent"
  /\ lastLineCount[1] = 2
  /\ Len(files["A"]) = 2
  /\ currentWatcher = 1

\* C12: a watcher whose initial read failed had its request answered with a
\* failure, holds no filesystem watch, has no read pending or scheduled, holds
\* nothing and has emitted no tree.
StartFailureIsFatal ==
  \A w \in Watchers :
    /\ initRead[w].st = "failed" => initRead[w].res = "pending"
    /\ initRead[w].res = "200" => initRead[w].st = "done"
    /\ initRead[w].st = "rejected"
       => /\ initRead[w].res = "500"
          /\ ~fsWatch[w]
          /\ ~changed[w]
          /\ polls[w] = <<>>
          /\ nodes[w] = <<>>
          /\ lastLineCount[w] = 0
          /\ processedLines[w] = {}
          /\ ~(out.type = "init" /\ out.from = w /\ out.via # "connection")

StartFailureIsFatalWitness ==
  /\ initRead[1].st = "rejected"
  /\ currentWatcher = 1
  /\ Len(files["A"]) = 2

\* C13: a poll cycle sends a message exactly when it added a node to the
\* registry, and the message is an init carrying the tree of the registry as
\* the cycle leaves it, tagged with the path of the watched log.
EmitOnNewNode ==
  [][\A w \in Watchers : \A i \in 1..Len(polls[w]) :
       readNewContent(w, i)
       => /\ out'.type = "init" <=> Ids(nodes'[w]) # Ids(nodes[w])
          /\ out'.type = "init"
             => /\ out'.nodes = TreeOf(buildTree(nodes'[w]))
                /\ out'.sessionFile = filePath[w]
                /\ out'.from = w
          /\ out'.type # "init" => out'.type = "none" /\ Strip(nodes'[w]) = Strip(nodes[w])]_vars

EmitOnNewNodeWitness ==
  /\ out.type = "init"
  /\ out.via = "readNewContent"
  /\ out.sessionFile = "A"
  /\ Len(out.nodes) = 2
  /\ files["A"] = <<U1, A1>>

\* a line that is cut short, or is not wrapped in braces, or is not JSON
Malformed(line) ==
  \/ ~line.full
  \/ ~line.json
  \/ line.raw = <<>>
  \/ Head(line.raw) # 123
  \/ line.raw[Len(line.raw)] # 125

\* what a pass of watcher w over `lines` leaves behind when the malformed
\* lines among them count for nothing
InertPost(w, lines) ==
  LET good == SelectSeq(lines, LAMBDA l : ~Malformed(l))
      r == IngestLines(WatcherState(w), good)
  IN  /\ Strip(nodes'[w]) = Strip(r.nodes)
      /\ processedLines'[w] = r.processedLines
      /\ out'.type = "init" => out'.nodes = TreeOf(buildTree(r.nodes))

\* C14: a malformed line yields no node and no fingerprint and stops nothing:
\* every pass leaves what the well-formed lines alone would have left, and a
\* poll cycle whose only new line is malformed leaves the registry, the
\* fingerprints and the tree untouched and sends nothing.
MalformedLinesInert ==
  [][\A w \in Watchers :
       /\ readFile(w) => InertPost(w, initRead[w].content)
       /\ \A i \in 1..Len(polls[w]) :
            (readNewContent(w, i) /\ Len(polls[w][i].content) > lastLineCount[w])
            => LET new == newLinesOf(polls[w][i].content, lastLineCount[w])
               IN  /\ InertPost(w, new)
                   /\ (\A k \in 1..Len(new) : Malformed(new[k]))
                      => /\ nodes'[w] = nodes[w]
                         /\ processedLines'[w] = processedLines[w]
                         /\ TreeOf(buildTree(nodes'[w])) = TreeOf(buildTree(nodes[w]))
                         /\ out'.type = "none"]_vars

MalformedLinesInertWitness ==
  /\ out = Quiet("readNewContent")
  /\ lastLineCount[1] = 2
  /\ Len(files["A"]) = 2
  /\ Malformed(files["A"][2])
  /\ ~Malformed(files["A"][1])
  /\ Len(nodes[1]) = 1
  /\ processedLines[1] = {<<"u1">>}

\* the tool_use segments of an assistant record
ToolBlocks(line) == SelectSeq(line.blocks, LAMBDA b : b.type = "tool_use")

\* lines[u], lines[a], lines[r] are the whole log and form one turn: a turn
\* starter, an assistant record with one thinking, one tool_use and one text
\* segment, and the result of that tool_use, with increasing timestamps
SimpleTurn(lines, u, a, r) ==
  /\ Len(lines) = 3
  /\ {u, a, r} = 1..3
  /\ \A k \in 1..3 : ~Malformed(lines[k])
  /\ lines[u].type = "user" /\ lines[u].msgKind = "text"
  /\ ~detectSystemMessage(lines[u].marks).skip
  /\ lines[a].type = "assistant" /\ lines[a].msgKind = "blocks"
  /\ Len(lines[a].blocks) = 3
  /\ {lines[a].blocks[k].type : k \in 1..3} = {"thinking", "tool_use", "text"}
  /\ lines[r].type = "user" /\ lines[r].msgKind = "tool_result"
  /\ lines[r].parentUuid = lines[a].uuid
  /\ lines[r].toolUseId = ToolBlocks(lines[a])[1].id
  /\ lines[u].timestamp < lines[a].timestamp
  /\ lines[a].timestamp < lines[r].timestamp

WorkingNodes(reg) ==
  LET linked == Link(reg, 1, [roots |-> <<>>, ch |-> ResetChildren(reg)])
      chSorted == [id \in Ids(reg) |-> SortByTimestamp(reg, linked.ch[id])]
  IN  SortByTimestamp(reg, flattenTree(SortByTimestamp(reg, linked.roots), chSorted))

\* the assistant nodes of the working set of the i-th turn
TurnAssistants(reg, starters, i) ==
  SelectSeq(WorkingNodes(reg),
    LAMBDA n : /\ NodeOf(reg, n).type = "assistant"
               /\ NodeOf(reg, n).timestamp > NodeOf(reg, starters[i]).timestamp
               /\ (i < Len(starters)
                    => NodeOf(reg, n).timestamp < NodeOf(reg, starters[i + 1]).timestamp))

EntriesOf(reg, uuid) ==
  {i \in 1..Len(reg) :
     /\ Len(reg[i].id) > Len(uuid)
     /\ SubSeq(reg[i].id, 1, Len(uuid)) = uuid}

\* C17: the nodes expanded from one assistant record have pairwise distinct
\* identifiers, and the registry of a watcher that loaded the record holds
\* one entry for each of them.
SegmentIdsDistinct ==
  \A w \in Watchers : \A k \in 1..Len(files[filePath[w]]) :
    LET line == files[filePath[w]][k]
        made == createAssistantNodes(line)
    IN  (initRead[w].st = "done" /\ line.type = "assistant" /\ isValidJsonLine(line))
        => /\ \A i, j \in 1..Len(made) : i # j => made[i].id # made[j].id
           /\ Cardinality(EntriesOf(nodes[w], line.uuid)) = Len(made)

\* the user text record at the head of the log yields no node: nothing of it
\* is in the registry of a watcher that loaded the log, and no root of the
\* tree stems from it
HeadSuppressed(w) ==
  LET line == files[filePath[w]][1]
  IN  /\ line.uuid \notin Ids(nodes[w])
      /\ hashLine(line) \in processedLines[w]
      /\ line.uuid \notin Range(buildTree(nodes[w]).roots)

\* C18 (as stated): a user text record that holds the caveat marker or the
\* stdout placeholder, and does not hold both command wrappers, yields no node.
SuppressedWheneverMarked ==
  \A w \in Watchers :
    LET m == files[filePath[w]][1].marks
    IN  (/\ initRead[w].st = "done"
         /\ "caveat" \in m \/ "stdout" \in m
         /\ ~("cmdName" \in m /\ "cmdMsg" \in m))
        => HeadSuppressed(w)

\* the first rule of the ordered table that the text matches is a suppressing one
FirstMatchSuppresses(m) ==
  /\ ~("cmdName" \in m /\ "cmdMsg" \in m)
  /\ \/ "stdout" \in m
     \/ /\ ~("cmdMsg" \in m /\ "running" \in m)
        /\ IF "jsonText" \in m THEN "jsonCaveat" \in m ELSE "caveat" \in m

\* C18 (amended): a user text record yields no node exactly when the first
\* rule its text matches is a suppressing one; otherwise it yields one node,
\* which is a turn starter.
SuppressedByFirstMatch ==
  \A w \in Watchers :
    LET line == files[filePath[w]][1]
    IN  initRead[w].st = "done"
        => IF FirstMatchSuppresses(line.marks)
             THEN HeadSuppressed(w)
             ELSE /\ line.uuid \in Ids(nodes[w])
                  /\ line.uuid \in Range(buildTree(nodes[w]).roots)
                  /\ NodeOf(nodes[w], line.uuid).type
                       = IF \/ {"cmdName", "cmdMsg"} \subseteq line.marks
                            \/ {"cmdMsg", "running"} \subseteq line.marks
                            \/ "jsonText" \in line.marks
                           THEN "system" ELSE "user"

SuppressedByFirstMatchWitness ==
  /\ initRead[1].st = "done"
  /\ out.via = "readFile"
  /\ files["A"][1].marks = {"jsonText", "jsonCaveat", "caveat"}
  /\ Ids(nodes[1]) = {<<"a2", "-text">>}
  /\ Len(out.nodes) = 1

Listed(f) == \E j \in 1..Len(sessionsRes.sessions) : sessionsRes.sessions[j].sessionId = f.sessionId

\* C20: the listing holds every log whose stat and metadata scan succeed and
\* omits every log of which one failed.
ListingIsolatesFailures ==
  sessionsRes.status = 200
  => \A k \in 1..Len(projects) :
       /\ (projects[k].statOk /\ projects[k].readOk) => Listed(projects[k])
       /\ ~(projects[k].statOk /\ projects[k].readOk) => ~Listed(projects[k])

\* C19: what a subscriber is sent when it connects is one init message that
\* carries the whole tree of the registry of the current watcher, as that
\* registry stands, tagged with the path the current watcher was built with.
SubscriberSnapshot ==
  out.via = "connection"
  => /\ currentWatcher # 0
     /\ out.type = "init"
     /\ out.from = currentWatcher
     /\ out.sessionFile = filePath[currentWatcher]
     /\ out.nodes = TreeOf(buildTree(Strip(nodes[currentWatcher])))

SubscriberSnapshotWitness ==
  /\ out.via = "connection"
  /\ currentWatcher = 2
  /\ Len(nodes[2]) >= 4
  /\ Len(out.nodes) = 2
  /\ fsWatch[1]

\* the registry holds a node and none of its nodes is a turn starter
NoTurnStarter(reg) ==
  /\ reg # <<>>
  /\ \A i \in 1..Len(reg) : reg[i].type \notin {"user", "system"}

\* C21: of a registry without a turn starter the tree is the raw linkage:
\* every node whose declared parent is in the registry is in the children
\* list of that parent, and every other node is a root.
RawLinkageWithoutStarters ==
  \A w \in Watchers :
    LET reg == nodes[w]
        t == buildTree(reg)
    IN  NoTurnStarter(reg)
        => \A i \in 1..Len(reg) :
             IF reg[i].parentId # Null /\ reg[i].parentId \in Ids(reg)
               THEN reg[i].id \in Range(t.ch[reg[i].parentId])
               ELSE reg[i].id \in Range(t.roots)

\* the nodes below id in the tree, followed to the given depth
RECURSIVE Below(_, _, _)
Below(ch, id, depth) ==
  IF depth = 0 THEN {}
  ELSE Range(ch[id]) \cup UNION {Below(ch, c, depth - 1) : c \in Range(ch[id])}

\* the nodes of the tree: its roots and what is below them
InTree(t) == Range(t.roots) \cup UNION {Below(t.ch, r, Cardinality(DOMAIN t.ch)) : r \in Range(t.roots)}

\* how often id is attached in the tree: as a root, or as a child of one of
\* the tree's nodes
Attachments(t, id) ==
  LET Count(list) == Cardinality({k \in 1..Len(list) : list[k] = id})
      RECURSIVE Sum(_)
      Sum(S) == IF S = {} THEN 0
                ELSE LET p == CHOOSE x \in S : TRUE IN Count(t.ch[p]) + Sum(S \ {p})
  IN  Count(t.roots) + Sum(InTree(t))

\* C22: whatever the registry holds (records with equal timestamps, tool
\* results that fall into another turn than their invocation), every node is
\* attached at most once in the tree getNodes returns, so no identifier occurs
\* twice in it, and no node of the tree is below itself.
ConsumedAtMostOnce ==
  \A w \in Watchers :
    LET t == buildTree(nodes[w])
    IN  /\ \A id \in Ids(nodes[w]) : Attachments(t, id) <= 1
        /\ \A id \in InTree(t) : id \notin Below(t.ch, id, Len(nodes[w]))
        /\ (out.type = "init" /\ out.from = w) => out.nodes = TreeOf(t)

ConsumedAtMostOnceWitness ==
  /\ out.via = "readFile"
  /\ files["A"] = <<U1, A1, A2>>
  /\ Len(out.nodes) = 2
  /\ out.nodes[2].id = <<"a2", "-text">>
  /\ Len(out.nodes[2].children) = 3
  /\ \A id \in Ids(nodes[1]) : Attachments(buildTree(nodes[1]), id) = 1

\* the orders in which the lines of a log may have been written
Orders(lines) ==
  {[k \in 1..Len(lines) |-> lines[f[k]]] :
     f \in {g \in [1..Len(lines) -> 1..Len(lines)] :
              \A i, j \in 1..Len(lines) : i # j => g[i] # g[j]}}

\* valid records with pairwise distinct fingerprints
DistinctRecords(lines) ==
  /\ \A k \in 1..Len(lines) : isValidJsonLine(lines[k])
  /\ \A i, j \in 1..Len(lines) : i # j => hashLine(lines[i]) # hashLine(lines[j])

\* the tree a watcher returns that was started on a log with these lines
TreeOfLog(lines) == TreeOf(buildTree(LoadWhole(lines).nodes))

\* C23 (as stated): the tree of a set of valid records with distinct
\* fingerprints is the same for every order of their lines in the log.
ArrivalOrderIndependence ==
  \A w \in Watchers :
    LET lines == files[filePath[w]]
    IN  (initRead[w].st = "done" /\ DistinctRecords(lines))
        => \A other \in Orders(lines) :
             TreeOfLog(other) = TreeOf(buildTree(nodes[w]))

DistinctTimestamps(lines) ==
  \A i, j \in 1..Len(lines) : i # j => getTime(lines[i].timestamp) # getTime(lines[j].timestamp)

\* C23 (amended): the tree of a set of valid records with distinct
\* fingerprints and pairwise distinct timestamps is the same for every order
\* of their lines in the log.
OrderIndependenceOfDistinctTimes ==
  \A w \in Watchers :
    LET lines == files[filePath[w]]
    IN  (initRead[w].st = "done" /\ DistinctRecords(lines) /\ DistinctTimestamps(lines))
        => \A other \in Orders(lines) :
             /\ TreeOfLog(other) = TreeOf(buildTree(nodes[w]))
             /\ out.via = "readFile" => out.nodes = TreeOfLog(other)

OrderIndependenceOfDistinctTimesWitness ==
  /\ initRead[1].st = "done"
  /\ out.via = "readFile"
  /\ files["A"] = <<A5, A1, U1>>
  /\ Len(out.nodes) = 2
  /\ out.nodes[1].id = <<"u1">>
  /\ out.nodes[2].id = <<"a5", "-text">>
  /\ Len(out.nodes[2].children) = 3

\* the tool_result nodes of the registry whose declared parent is not in it
OrphanResults(reg) ==
  {reg[i].id : i \in {k \in 1..Len(reg) :
                        reg[k].type = "tool_result" /\ reg[k].parentId \notin Ids(reg)}}

ResultIds(reg) == {reg[i].id : i \in {k \in 1..Len(reg) : reg[k].type = "tool_result"}}

\* C24 (as stated): in every tree returned by getNodes no orphan tool_result
\* occurs and no tool_result is a root.
OrphanResultsDropped ==
  \A w \in Watchers :
    LET t == buildTree(nodes[w])
    IN  /\ OrphanResults(nodes[w]) \cap InTree(t) = {}
        /\ ResultIds(nodes[w]) \cap Range(t.roots) = {}

\* the turn starters the reorganisation finds
StartersOf(reg) ==
  SelectSeq(WorkingNodes(reg), LAMBDA n : NodeOf(reg, n).type \in {"user", "system"})

\* C24 (amended): when the reorganisation finds a turn starter, no orphan
\* tool_result occurs in the tree and no tool_result is a root; when it finds
\* none, the roots of the raw linkage are returned and every orphan
\* tool_result is one of them.
OrphanResultsDroppedInTurns ==
  \A w \in Watchers :
    LET t == buildTree(nodes[w])
    IN  IF StartersOf(nodes[w]) # <<>>
          THEN /\ OrphanResults(nodes[w]) \cap InTree(t) = {}
               /\ ResultIds(nodes[w]) \cap Range(t.roots) = {}
               /\ (out.type = "init" /\ out.from = w)
                  => \A k \in 1..Len(out.nodes) : out.nodes[k].id \notin ResultIds(nodes[w])
          ELSE OrphanResults(nodes[w]) \subseteq Range(t.roots)

OrphanResultsDroppedInTurnsWitness ==
  /\ out.via = "readFile"
  /\ files["A"] = <<U1, R2, A3>>
  /\ OrphanResults(nodes[1]) = {<<"r2">>}
  /\ Len(out.nodes) = 2
  /\ out.nodes[2].id = <<"a3", "-tool-", "xyz">>
  /\ out.nodes[2].children = <<>>

\* the position in the root list of the root that is, or holds, node n
RootPosition(t, n) ==
  CHOOSE k \in 1..Len(t.roots) :
    n = t.roots[k] \/ n \in Below(t.ch, t.roots[k], Cardinality(DOMAIN t.ch))

\* the turn in which the tree shows node n: the number of turn starters among
\* the roots up to the root of n
ShownInTurn(reg, t, n) ==
  Cardinality({k \in 1..RootPosition(t, n) : NodeOf(reg, t.roots[k]).type \in {"user", "system"}})

\* the timestamp of n lies strictly between the i-th turn starter and the next
StrictlyInside(reg, starters, i, n) ==
  /\ getTime(NodeOf(reg, n).timestamp) > getTime(NodeOf(reg, starters[i]).timestamp)
  /\ i < Len(starters)
     => getTime(NodeOf(reg, n).timestamp) < getTime(NodeOf(reg, starters[i + 1]).timestamp)

\* C25: a node that is not a turn starter is shown in the turn of the starter
\* whose timestamp it strictly follows and whose successor's timestamp it
\* strictly precedes, and in no other; a node whose timestamp equals that of
\* a turn starter, or precedes that of the first one, is in no turn and does
\* not occur in the tree.
TurnMembership ==
  \A w \in Watchers :
    LET reg == nodes[w]
        t == buildTree(reg)
        starters == StartersOf(reg)
        others == {n \in Range(WorkingNodes(reg)) : NodeOf(reg, n).type \notin {"user", "system"}}
    IN  starters # <<>>
        => \A n \in others :
             /\ n \in InTree(t)
                => /\ ShownInTurn(reg, t, n) >= 1
                   /\ StrictlyInside(reg, starters, ShownInTurn(reg, t, n), n)
             /\ \A i \in 1..Len(starters) :
                  (StrictlyInside(reg, starters, i, n) /\ NodeOf(reg, n).type # "tool_result")
                  => n \in InTree(t) /\ ShownInTurn(reg, t, n) = i
             /\ (\/ \E i \in 1..Len(starters) :
                      getTime(NodeOf(reg, n).timestamp) = getTime(NodeOf(reg, starters[i]).timestamp)
                 \/ getTime(NodeOf(reg, n).timestamp) < getTime(NodeOf(reg, starters[1]).timestamp))
                => n \notin InTree(t)

TurnMembershipWitness ==
  /\ out.via = "readFile"
  /\ files["A"] = <<Y1, A3, A5>>
  /\ Len(out.nodes) = 2
  /\ out.nodes[1].id = <<"y1">>
  /\ out.nodes[2].id = <<"a3", "-tool-", "xyz">>
  /\ <<"a5", "-text">> \in Ids(nodes[1])

\* the working set of the i-th turn: the nodes strictly inside its window
\* that are not turn starters, in timestamp order
WorkingSet(reg, starters, i) ==
  SelectSeq(WorkingNodes(reg),
    LAMBDA n : /\ NodeOf(reg, n).type \notin {"user", "system"}
               /\ StrictlyInside(reg, starters, i, n))

\* the roots from the i-th turn starter up to the next one
RootsOfTurn(reg, t, starters, i) ==
  LET from == CHOOSE k \in 1..Len(t.roots) : t.roots[k] = starters[i]
      to == IF i < Len(starters)
              THEN (CHOOSE k \in 1..Len(t.roots) : t.roots[k] = starters[i + 1]) - 1
              ELSE Len(t.roots)
  IN  SubSeq(t.roots, from, to)

\* C26: of a turn whose working set holds no assistant node, the roots are
\* the turn starter followed by the non-tool_result nodes of the set in
\* timestamp order, and the children of each of these are the tool_result
\* nodes of the set that declare it as their parent.
TurnWithoutAssistant ==
  \A w \in Watchers :
    LET reg == nodes[w]
        t == buildTree(reg)
        starters == StartersOf(reg)
    IN  \A i \in 1..Len(starters) :
          LET set == WorkingSet(reg, starters, i)
          IN  (\A k \in 1..Len(set) : NodeOf(reg, set[k]).type # "assistant")
              => /\ RootsOfTurn(reg, t, starters, i)
                      = <<starters[i]>>
                        \o SelectSeq(set, LAMBDA n : NodeOf(reg, n).type # "tool_result")
                 /\ \A k \in 1..Len(set) :
                      NodeOf(reg, set[k]).type # "tool_result"
                      => t.ch[set[k]]
                           = SelectSeq(set, LAMBDA r : /\ NodeOf(reg, r).type = "tool_result"
                                                       /\ NodeOf(reg, r).parentId = set[k])

TurnWithoutAssistantWitness ==
  /\ out.via = "readFile"
  /\ files["A"] = <<U2, R3, A3>>
  /\ Len(out.nodes) = 2
  /\ out.nodes[1].id = <<"u2">>
  /\ out.nodes[2].id = <<"a3", "-tool-", "xyz">>
  /\ Len(out.nodes[2].children) = 1
  /\ out.nodes[2].children[1].id = <<"r3">>

StarterIds(reg) == {reg[i].id : i \in {k \in 1..Len(reg) : reg[k].type \in {"user", "system"}}}

\* the tree is at most three levels deep
ThreeLevels(t) ==
  \A r \in Range(t.roots) : \A c \in Range(t.ch[r]) : \A g \in Range(t.ch[c]) : t.ch[g] = <<>>

\* the turn starters among the roots, in root order, are in timestamp order
StartersAscend(reg, t) ==
  LET shown == SelectSeq(t.roots, LAMBDA n : NodeOf(reg, n).type \in {"user", "system"})
  IN  \A i, j \in 1..Len(shown) :
        i < j => getTime(NodeOf(reg, shown[i]).timestamp) <= getTime(NodeOf(reg, shown[j]).timestamp)

\* C27: every user and system node of the registry is a root of the tree and
\* has no children, these roots are in timestamp order, and the tree is at
\* most three levels deep.
StartersAreFlatRoots ==
  \A w \in Watchers :
    LET reg == nodes[w]
        t == buildTree(reg)
    IN  /\ \A s \in StarterIds(reg) : s \in Range(t.roots) /\ t.ch[s] = <<>>
        /\ StartersAscend(reg, t)
        /\ ThreeLevels(t)

\* a list of siblings is in ascending timestamp order, nodes with equal
\* timestamps in the order of their insertion into the registry
InSiblingOrder(reg, list) ==
  \A i, j \in 1..Len(list) :
    i < j
    => \/ getTime(NodeOf(reg, list[i]).timestamp) < getTime(NodeOf(reg, list[j]).timestamp)
       \/ /\ getTime(NodeOf(reg, list[i]).timestamp) = getTime(NodeOf(reg, list[j]).timestamp)
          /\ IndexOf(reg, list[i]) < IndexOf(reg, list[j])

\* C28: in the tree returned by getNodes the root list and every children
\* list are in ascending timestamp order, and nodes with equal timestamps
\* keep the order of their insertion into the registry.
SiblingOrder ==
  \A w \in Watchers :
    LET reg == nodes[w]
        t == buildTree(reg)
    IN  /\ InSiblingOrder(reg, t.roots)
        /\ \A id \in InTree(t) : InSiblingOrder(reg, t.ch[id])

\* the ordered rule table for a user text: whether the text matches the rule
\* and what the rule yields; caveatSeen = the JSON rule finds the caveat
RuleTable(line, caveatSeen) ==
  LET m == line.marks
      name == IF line.cmdName # "" THEN line.cmdName ELSE "command"
      args == IF line.cmdArgs # "" THEN " " \o line.cmdArgs ELSE ""
      title == IF Len(line.title) <= 60 THEN line.title
               ELSE SubSeq(line.title, 1, 57) \o "..."
  IN  <<[match |-> {"cmdName", "cmdMsg"} \subseteq m,
         kind |-> "system", summary |-> "Command: " \o name],
        [match |-> "stdout" \in m, kind |-> "suppressed", summary |-> ""],
        [match |-> {"cmdMsg", "running"} \subseteq m,
         kind |-> "system", summary |-> "Running: " \o name \o args],
        [match |-> "jsonText" \in m,
         kind |-> IF caveatSeen THEN "suppressed" ELSE "system",
         summary |-> IF caveatSeen THEN "" ELSE "Skill: " \o title],
        [match |-> "caveat" \in m, kind |-> "suppressed", summary |-> ""],
        [match |-> TRUE, kind |-> "user", summary |-> ""]>>

FirstMatching(rules) ==
  rules[CHOOSE k \in 1..Len(rules) : rules[k].match /\ \A j \in 1..(k - 1) : ~rules[j].match]

\* what became of the user text record at the head of the log of watcher w
HeadOutcome(w) ==
  LET line == files[filePath[w]][1]
  IN  IF line.uuid \in Ids(nodes[w])
        THEN [kind |-> NodeOf(nodes[w], line.uuid).type,
              summary |-> IF NodeOf(nodes[w], line.uuid).type = "system"
                            THEN NodeOf(nodes[w], line.uuid).summary ELSE ""]
        ELSE [kind |-> "suppressed", summary |-> ""]

\* C29 (as stated): the outcome for a user text is that of the first rule of
\* the table it matches, the JSON rule suppressing the text when the array
\* holds the caveat marker.
RuleOrderByMarkers ==
  \A w \in Watchers :
    initRead[w].st = "done"
    => LET line == files[filePath[w]][1]
           rule == FirstMatching(RuleTable(line, "caveat" \in line.marks))
       IN  HeadOutcome(w) = [kind |-> rule.kind, summary |-> rule.summary]

\* C29 (amended): the outcome for a user text is that of the first rule of
\* the table it matches, the JSON rule suppressing the text when the text of
\* the first segment of the array holds the caveat marker; a suppressed text
\* leaves no node, every other text leaves one node, which is a root.
RuleOrderByFirstSegment ==
  \A w \in Watchers :
    initRead[w].st = "done"
    => LET line == files[filePath[w]][1]
           rule == FirstMatching(RuleTable(line, "jsonCaveat" \in line.marks))
       IN  /\ HeadOutcome(w) = [kind |-> rule.kind, summary |-> rule.summary]
           /\ hashLine(line) \in processedLines[w]
           /\ rule.kind # "suppressed" <=> line.uuid \in Range(buildTree(nodes[w]).roots)

RuleOrderByFirstSegmentWitness ==
  /\ initRead[1].st = "done"
  /\ out.via = "readFile"
  /\ files["A"][1].marks = {"jsonText", "caveat", "cmdName", "running"}
  /\ files["A"][1].title # "Skill prompt"
  /\ HeadOutcome(1).kind = "system"
  /\ Len(HeadOutcome(1).summary) = 67
  /\ Len(out.nodes) = 2

\* the node of the user text record at the head of the log of watcher w, when
\* that record is an ordinary user message
OrdinaryHead(w) ==
  /\ initRead[w].st = "done"
  /\ files[filePath[w]][1].uuid \in Ids(nodes[w])
  /\ NodeOf(nodes[w], files[filePath[w]][1].uuid).type = "user"

\* C30 (as stated): the summary of an ordinary user node is the first 100
\* characters of its content, the whole content when it has at most 100.
SummaryIsFirstHundred ==
  \A w \in Watchers :
    OrdinaryHead(w)
    => LET node == NodeOf(nodes[w], files[filePath[w]][1].uuid)
       IN  node.summary = IF Len(node.content) <= 100 THEN node.content
                          ELSE SubSeq(node.content, 1, 100)

\* C30 (amended): the summary of an ordinary user node is its whole content
\* when that has at most 100 characters, and otherwise the first 97
\* characters of the content followed by three dots, 100 characters in all.
SummaryIsCutToHundred ==
  \A w \in Watchers :
    OrdinaryHead(w)
    => LET node == NodeOf(nodes[w], files[filePath[w]][1].uuid)
       IN  /\ node.content = files[filePath[w]][1].text
           /\ Len(node.summary) <= 100
           /\ IF Len(node.content) <= 100
                THEN node.summary = node.content
                ELSE /\ Len(node.summary) = 100
                     /\ SubSeq(node.summary, 1, 97) = SubSeq(node.content, 1, 97)
                     /\ SubSeq(node.summary, 98, 100) = "..."

SummaryIsCutToHundredWitness ==
  /\ OrdinaryHead(1)
  /\ out.via = "readFile"
  /\ Len(files["A"][1].text) = 101
  /\ Len(NodeOf(nodes[1], <<"u1">>).summary) = 100
  /\ NodeOf(nodes[1], <<"u1">>).summary # SubSeq(files["A"][1].text, 1, 100)

\* a well-formed line that is a file-history snapshot or has a discriminator
\* other than user and assistant
NonMaterializing(line) == ~Malformed(line) /\ line.type \notin {"user", "assistant"}

\* what a pass of watcher w over `lines` leaves behind: the registry of the
\* other lines alone, the fingerprint of every snapshot among them, and a
\* position that counts all of them
SkippedPost(w, lines, total) ==
  LET rest == SelectSeq(lines, LAMBDA l : ~NonMaterializing(l))
      r == IngestLines(WatcherState(w), rest)
  IN  /\ Strip(nodes'[w]) = Strip(r.nodes)
      /\ \A k \in 1..Len(lines) :
           (NonMaterializing(lines[k]) /\ lines[k].type = "file-history-snapshot")
           => (<<"snapshot-">> \o lines[k].messageId) \in processedLines'[w]
      /\ lastLineCount'[w] = total

\* C31: a well-formed file-history snapshot line, or one with any other
\* discriminator, adds no node to the registry and causes no message: every
\* pass leaves the registry that the other lines alone would have left, a poll
\* cycle sends a tree exactly when those other lines added a node, and a
\* cycle whose new lines are all of that kind leaves the registry untouched
\* and sends nothing; the fingerprint snapshot-<messageId> of each snapshot
\* is recorded and the position afterwards counts every line read.
NonMaterializingRecords ==
  [][\A w \in Watchers :
       /\ (readFile(w) /\ initRead[w].st = "ready")
          => SkippedPost(w, initRead[w].content, Len(initRead[w].content))
       /\ \A i \in 1..Len(polls[w]) :
            (/\ readNewContent(w, i)
             /\ polls[w][i].st = "ready"
             /\ Len(polls[w][i].content) > lastLineCount[w])
            => LET new == newLinesOf(polls[w][i].content, lastLineCount[w])
                   rest == SelectSeq(new, LAMBDA l : ~NonMaterializing(l))
               IN  /\ SkippedPost(w, new, Len(polls[w][i].content))
                   /\ out'.type = "init" <=> IngestLines(WatcherState(w), rest).hasNewNodes
                   /\ (\A k \in 1..Len(new) : NonMaterializing(new[k]))
                      => /\ nodes'[w] = nodes[w]
                         /\ out'.type = "none"]_vars

NonMaterializingRecordsWitness ==
  /\ out = Quiet("readNewContent")
  /\ files["A"] = <<U1, S1>>
  /\ lastLineCount[1] = 2
  /\ Len(nodes[1]) = 1
  /\ processedLines[1] = {<<"u1">>, <<"snapshot-", "m1">>}

\* the nodes a record expands into
NodesOfLine(line) ==
  CASE line.type = "user" /\ line.msgKind # "none" -> createUserNode(line)
    [] line.type = "assistant" -> createAssistantNodes(line)
    [] OTHER -> <<>>

RECURSIVE Expanded(_)
\* the nodes expanded from these records, in the order of their expansion
Expanded(lines) ==
  IF lines = <<>> THEN <<>> ELSE NodesOfLine(Head(lines)) \o Expanded(Tail(lines))

\* the node that was expanded last under this id
LastWith(made, id) ==
  made[CHOOSE k \in 1..Len(made) :
         /\ made[k].id = id
         /\ \A j \in (k + 1)..Len(made) : made[j].id # id]

\* C32: the registry holds one entry for each identifier that was expanded
\* from the records the watcher has processed, and the entry is, field by
\* field, the node that was expanded last under that identifier: a node that
\* arrives under an existing identifier replaces the whole entry, adds no
\* entry and leaves every other entry as it was.
UpsertLastWriteWins ==
  \A w \in Watchers :
    LET read == SubSeq(files[filePath[w]], 1, lastLineCount[w])
        made == Expanded(Unseen(read, {}))
        reg == Strip(nodes[w])
    IN  /\ \A i, j \in 1..Len(reg) : i # j => reg[i].id # reg[j].id
        /\ Ids(reg) = {made[k].id : k \in 1..Len(made)}
        /\ \A i \in 1..Len(reg) : reg[i] = LastWith(made, reg[i].id)

UpsertLastWriteWinsWitness ==
  /\ files["A"] = <<U1, A4, X1>>
  /\ lastLineCount[1] = 3
  /\ out.via = "readNewContent"
  /\ Len(nodes[1]) = 2
  /\ nodes[1][2].id = <<"a4", "-text">>
  /\ nodes[1][2].type = "user"
  /\ nodes[1][2].content = "Overwrite"
  /\ nodes[1][2].parentId = <<"u1">>
  /\ nodes[1][2].timestamp = 3

\* in this list of siblings no node with an unparsable timestamp stands in
\* front of a node with a parsable one
UnparsableLast(reg, list) ==
  \A i, j \in 1..Len(list) :
    (i < j /\ NodeOf(reg, list[i]).timestamp = Unparsable)
    => NodeOf(reg, list[j]).timestamp = Unparsable

EntryOf(cache, f) == {c \in cache : c.key = f.sessionId}

\* what a scan of the log as it is now gives
Scanned(f) == SessionInfo(f, getSessionMetadata(f))

\* C34: a listing takes the cached entry of a log exactly when the entry is
\* younger than cacheTTL and holds the modification time the log has now;
\* otherwise it scans the log and puts the result in the place of the entry;
\* either way what it lists for the log is what a scan of the log gives now.
CacheValidity ==
  [][GetSessions
     => \A k \in 1..Len(projects) :
          LET f == projects[k]
              old == EntryOf(sessionCache, f)
              reusable == /\ old # {}
                          /\ \A c \in old : /\ now - c.timestamp < cacheTTL
                                            /\ c.info.lastModified = f.lastModified
          IN  /\ reusable => EntryOf(sessionCache', f) = old
              /\ ~reusable => EntryOf(sessionCache', f) = {CacheEntry(f, Scanned(f), now)}
              /\ \E j \in 1..Len(sessionsRes'.sessions) : sessionsRes'.sessions[j] = Scanned(f)
              /\ \A j \in 1..Len(sessionsRes'.sessions) :
                   sessionsRes'.sessions[j].sessionId = f.sessionId
                   => sessionsRes'.sessions[j] = Scanned(f)]_vars

CacheValidityWitness ==
  /\ now = 1
  /\ Len(projects) = 2
  /\ Len(sessionsRes.sessions) = 2
  /\ \E c, d \in sessionCache :
       /\ c.key = "1" /\ c.timestamp = 1 /\ c.info.lastModified = 2 /\ c.info.toolCount = 2
       /\ d.key = "2" /\ d.timestamp = 0 /\ d.info.lastModified = 2
       /\ \E i, j \in 1..2 : sessionsRes.sessions[i] = c.info /\ sessionsRes.sessions[j] = d.info

\* the nodes whose chain of declared parents comes back to them
OnParentLoop(reg) ==
  LET Parent(id) == NodeOf(reg, id).parentId
      Up[n \in 0..Len(reg)] ==
        [id \in Ids(reg) |->
           IF n = 0 THEN {id}
           ELSE Up[n - 1][id] \cup
                {Parent(x) : x \in {y \in Up[n - 1][id] : Parent(y) \in Ids(reg)}}]
  IN  {id \in Ids(reg) : Parent(id) \in Ids(reg) /\ id \in Up[Len(reg)][Parent(id)]}

NoWalk == [result |-> <<>>, overflow |-> FALSE]

\* C35: for every registry, those with a node that is its own parent or with
\* nodes that name each other as parents included, the walk of flattenTree
\* over the raw linkage ends before the recursion is cut off and visits no
\* node twice, and so does a walk of the tree that buildTree returns: the
\* rebuild terminates and its tree is finite.
RebuildTerminates ==
  \A w \in Watchers :
    initRead[w].st = "done"
    => LET reg == nodes[w]
           linked == Link(reg, 1, [roots |-> <<>>, ch |-> ResetChildren(reg)])
           rootNodes == SortByTimestamp(reg, linked.roots)
           chSorted == [id \in Ids(reg) |-> SortByTimestamp(reg, linked.ch[id])]
           raw == flatten(rootNodes, chSorted, 1, NoWalk)
           t == buildTree(reg)
           sent == flatten(t.roots, t.ch, 1, NoWalk)
           Once(walk) == \A i, j \in 1..Len(walk.result) :
                           i # j => walk.result[i] # walk.result[j]
       IN  /\ ~raw.overflow /\ Once(raw)
           /\ ~sent.overflow /\ Once(sent)
           /\ out.type = "init" => out.nodes = TreeOf(t)

RebuildTerminatesWitness ==
  /\ files["A"] = <<Q1, Q2, A1>>
  /\ initRead[1].st = "done"
  /\ OnParentLoop(nodes[1]) = {<<"q1">>, <<"q2">>}
  /\ Len(nodes[1]) = 5
  /\ out.type = "init"
  /\ Len(out.nodes) = 3

\* what a poll cycle leaves of a watcher in state st when its read gave
\* `lines` (95-114); st = [nodes, processedLines, lastLineCount]
CycleOn(st, lines) ==
  IF Len(lines) <= st.lastLineCount THEN st
  ELSE LET r == IngestLines([nodes |-> st.nodes, processedLines |-> st.processedLines,
                             hasNewNodes |-> FALSE],
                            newLinesOf(lines, st.lastLineCount))
       IN  [nodes |-> r.nodes, processedLines |-> r.processedLines,
            lastLineCount |-> Len(lines)]

\* the lines a poll cycle hands to processLine
ProcessedBy(st, lines) ==
  IF Len(lines) <= st.lastLineCount THEN <<>>
  ELSE Unseen(newLinesOf(lines, st.lastLineCount), st.processedLines)

\* the two cycles, the one given `first` completing before the one given
\* `second`, process no line twice and do not lower the position
CyclesDisjoint(st, first, second) ==
  LET mid == CycleOn(st, first)
      end == CycleOn(mid, second)
  IN  /\ {hashLine(l) : l \in Range(ProcessedBy(st, first))}
           \cap {hashLine(l) : l \in Range(ProcessedBy(mid, second))} = {}
      /\ st.lastLineCount <= mid.lastLineCount
      /\ mid.lastLineCount <= end.lastLineCount

\* C36: when two poll cycles of a watcher have both been served their read,
\* completing them in either order processes no line twice, never lowers the
\* last-processed line count, and leaves the registry, the fingerprints and
\* the tree that handling the earlier trigger and then the later one leaves.
OverlappingCyclesHarmless ==
  \A w \in Watchers : \A i, j \in 1..Len(polls[w]) :
    (i < j /\ polls[w][i].st = "ready" /\ polls[w][j].st = "ready")
    => LET st == [nodes |-> nodes[w], processedLines |-> processedLines[w],
                  lastLineCount |-> lastLineCount[w]]
           inOrder == CycleOn(CycleOn(st, polls[w][i].content), polls[w][j].content)
           reversed == CycleOn(CycleOn(st, polls[w][j].content), polls[w][i].content)
       IN  /\ CyclesDisjoint(st, polls[w][i].content, polls[w][j].content)
           /\ CyclesDisjoint(st, polls[w][j].content, polls[w][i].content)
           /\ Strip(reversed.nodes) = Strip(inOrder.nodes)
           /\ reversed.processedLines = inOrder.processedLines
           /\ TreeOf(buildTree(reversed.nodes)) = TreeOf(buildTree(inOrder.nodes))

\* the invocation node n stems from a tool_use segment of an assistant record
\* of the log, the tool_result node r from a tool-result record that names
\* that record as its parent and that segment as its tool_use_id
Answers(lines, r, n) ==
  \E a, u \in Range(lines) :
    /\ a.type = "assistant" /\ u.type = "user" /\ u.msgKind = "tool_result"
    /\ u.uuid = r
    /\ u.parentUuid = a.uuid
    /\ \E k \in 1..Len(a.blocks) :
         /\ a.blocks[k].type = "tool_use"
         /\ a.blocks[k].id = u.toolUseId
         /\ n = a.uuid \o <<"-tool-">> \o a.blocks[k].id

\* both nodes are in the working set of one turn
InOneTurn(reg, r, n) ==
  LET starters == StartersOf(reg)
  IN  \E i \in 1..Len(starters) : {r, n} \subseteq Range(WorkingSet(reg, starters, i))

WatchActive ==
  /\ currentWatcher # 0
  /\ initRead[currentWatcher].st # "rejected"

\* C38: a client that connects when no watch is active (none started, after
\* an explicit stop, or after a POST /api/watch whose initial load failed) is
\* sent no init message.
NoSnapshotWithoutWatch ==
  (out.type = "init" /\ out.via = "connection") => WatchActive

====
